---- MODULE Spec2Model ----
(***************************************************************************)
(* Model of the Teams browser-automation core of dotbot:                   *)
(*   TeamsManager        (services/teams-manager.ts, src/unnamed/part_000) *)
(*   NotificationManager (electron/services/notification-manager.ts)      *)
(*   AppStorage          (electron/storage.ts)                             *)
(*   helpers             (utils/helpers.ts, src/unnamed/part_005)          *)
(*                                                                         *)
(* Strings are sequences of tokens.  A token is an indivisible block of    *)
(* characters; the needles the code searches for ('5', ':', '{', 'v4/f',   *)
(* '/messaging', 'Event', '<', '>', '&', 'amp;', ...) are single tokens,    *)
(* so startsWith / indexOf / includes / endsWith / replace are computed    *)
(* on the sequence exactly as the code computes them on characters.        *)
(***************************************************************************)
EXTENDS Integers, Sequences, FiniteSets, TLC

(***************************************************************************)
(* JavaScript values: k is the type tag, s the text of a string (or the    *)
(* digits of a number), o the members of an object.                        *)
(***************************************************************************)
Undefined == [k |-> "undefined", s |-> <<>>, o |-> <<>>]

Null == [k |-> "null", s |-> <<>>, o |-> <<>>]

Str(s) == [k |-> "string", s |-> s, o |-> <<>>]

Num(s) == [k |-> "number", s |-> s, o |-> <<>>]

Obj(o) == [k |-> "object", s |-> <<>>, o |-> o]

\* JavaScript ToBoolean
Truthy(v) ==
    CASE v.k = "undefined" -> FALSE
      [] v.k = "null"      -> FALSE
      [] v.k = "string"    -> v.s /= <<>>
      [] v.k = "number"    -> v.s /= <<"0">>
      [] OTHER             -> TRUE

\* property read v[key]: undefined for a missing member and for a primitive;
\* the caller decides what reading from undefined / null does (TypeError)
Get(v, key) ==
    IF v.k = "object" /\ key \in DOMAIN v.o THEN v.o[key] ELSE Undefined

\* v == "literal" (loose equality against a string literal)
LooseEq(v, lit) == v.k = "string" /\ v.s = lit

\* a || b
OrElse(a, b) == IF Truthy(a) THEN a ELSE b

(***************************************************************************)
(* String primitives                                                       *)
(***************************************************************************)
\* String.prototype.startsWith
StartsWith(s, p) == Len(s) >= Len(p) /\ SubSeq(s, 1, Len(p)) = p

\* String.prototype.endsWith
EndsWith(s, p) == Len(s) >= Len(p) /\ SubSeq(s, Len(s) - Len(p) + 1, Len(s)) = p

\* String.prototype.indexOf for a one-token needle: 0-based, -1 when absent
\* indexOf that answers 0, not -1, for a character that does not occur
IndexOfOrZero(s, c) ==
    IF \E i \in 1..Len(s) : s[i] = c
    THEN (CHOOSE i \in 1..Len(s) : s[i] = c /\ \A j \in 1..(i - 1) : s[j] /= c) - 1
    ELSE 0

IndexOf(s, c) ==
    IF \E i \in 1..Len(s) : s[i] = c
    THEN (CHOOSE i \in 1..Len(s) : s[i] = c /\ \A j \in 1..(i - 1) : s[j] /= c) - 1
    ELSE -1

\* String.prototype.substring(from) with a 0-based index
Substring(s, from) == SubSeq(s, from + 1, Len(s))

\* String.prototype.includes
Includes(s, p) == \E i \in 0..(Len(s) - Len(p)) : SubSeq(s, i + 1, i + Len(p)) = p

(***************************************************************************)
(* JSON text.  Tokens: "{" "}" open and close an object, a member is its   *)
(* key token followed by a value, QUOTE delimits a string, ESCQUOTE is an  *)
(* escaped quote inside a string, "null" and the NumberTokens are          *)
(* literals.  Anything else is a syntax error, as is trailing text.        *)
(***************************************************************************)
QUOTE == "\""

ESCQUOTE == "\\\""

NumberTokens == {"0", "5"}

KeyTokens ==
    {"url", "method", "body", "type", "resourceType", "time", "resource",
     "content", "messageType", "messagetype", "id", "imdisplayname", "to",
     "threadtopic", "secret", "credentialType", "oid", "sub", "unique_name"}

\* the escapes JSON.parse undoes inside a string literal
Unescape(s) == [i \in 1..Len(s) |-> IF s[i] = ESCQUOTE THEN QUOTE ELSE s[i]]

ParseFail == [ok |-> FALSE, v |-> Undefined, next |-> 0]

RECURSIVE ParseValue(_, _)
RECURSIVE ParseMembers(_, _, _)
ParseValue(s, i) ==
    IF i > Len(s) THEN ParseFail
    ELSE IF s[i] = "{" THEN ParseMembers(s, i + 1, <<>>)
    ELSE IF s[i] = QUOTE THEN
        LET rest == SubSeq(s, i + 1, Len(s))
            close == IndexOf(rest, QUOTE)
        IN  IF close = -1 THEN ParseFail
            ELSE [ok |-> TRUE,
                  v |-> Str(Unescape(SubSeq(rest, 1, close))),
                  next |-> i + close + 2]
    ELSE IF s[i] \in NumberTokens THEN [ok |-> TRUE, v |-> Num(<<s[i]>>), next |-> i + 1]
    ELSE IF s[i] = "null" THEN [ok |-> TRUE, v |-> Null, next |-> i + 1]
    ELSE ParseFail

ParseMembers(s, i, acc) ==
    IF i > Len(s) THEN ParseFail
    ELSE IF s[i] = "}" THEN [ok |-> TRUE, v |-> Obj(acc), next |-> i + 1]
    ELSE IF s[i] \in KeyTokens THEN
        LET r == ParseValue(s, i + 1)
        IN  IF r.ok
            THEN ParseMembers(s, r.next,
                    [key \in (DOMAIN acc) \cup {s[i]} |->
                        IF key = s[i] THEN r.v ELSE acc[key]])
            ELSE ParseFail
    ELSE ParseFail

\* JSON.parse(text): [threw |-> TRUE] is the SyntaxError
JSONParseText(s) ==
    LET r == ParseValue(s, 1)
    IN  IF r.ok /\ r.next = Len(s) + 1
        THEN [threw |-> FALSE, v |-> r.v]
        ELSE [threw |-> TRUE, v |-> Undefined]

\* JSON.parse(x) of a JavaScript value: the argument is converted to a string
\* first; String(object) is "[object Object]", which is no JSON text
JSONParse(x) ==
    CASE x.k = "string" -> JSONParseText(x.s)
      [] x.k = "number" -> [threw |-> FALSE, v |-> x]
      [] x.k = "null"   -> [threw |-> FALSE, v |-> Null]
      [] OTHER          -> [threw |-> TRUE, v |-> Undefined]

(***************************************************************************)
(* helpers.ts: extractTextFromHtml.  An entity is the token "&" followed   *)
(* by its name token ("amp;", "lt;", ...), so a replacement can create the *)
(* text of a later one, as it does on characters.                          *)
(***************************************************************************)
\* html.replace(/<[^>]*>/g, ''): a "<" with no ">" after it is kept
RECURSIVE RemoveTags(_)
RemoveTags(s) ==
    IF s = <<>> THEN <<>>
    ELSE IF s[1] = "<" /\ IndexOf(Tail(s), ">") /= -1
         THEN RemoveTags(Substring(Tail(s), IndexOf(Tail(s), ">") + 1))
         ELSE <<s[1]>> \o RemoveTags(Tail(s))

\* s.replace(/pat/g, rep): every occurrence, left to right, no rescan
RECURSIVE ReplaceAll(_, _, _)
ReplaceAll(s, pat, rep) ==
    IF s = <<>> THEN <<>>
    ELSE IF StartsWith(s, pat)
         THEN rep \o ReplaceAll(SubSeq(s, Len(pat) + 1, Len(s)), pat, rep)
         ELSE <<s[1]>> \o ReplaceAll(Tail(s), pat, rep)

\* String.prototype.trim over the blank token
RECURSIVE TrimStart(_)
TrimStart(s) == IF s /= <<>> /\ s[1] = " " THEN TrimStart(Tail(s)) ELSE s

RECURSIVE TrimEnd(_)
TrimEnd(s) ==
    IF s /= <<>> /\ s[Len(s)] = " " THEN TrimEnd(SubSeq(s, 1, Len(s) - 1)) ELSE s

Trim(s) == TrimEnd(TrimStart(s))

extractTextFromHtml(html) ==
    Trim(
     ReplaceAll(
      ReplaceAll(
       ReplaceAll(
        ReplaceAll(
         ReplaceAll(
          ReplaceAll(RemoveTags(html),
                     <<"&", "nbsp;">>, <<" ">>),
                    <<"&", "amp;">>, <<"&">>),
                   <<"&", "lt;">>, <<"<">>),
                  <<"&", "gt;">>, <<">">>),
                 <<"&", "quot;">>, <<QUOTE>>),
                <<"&", "#39;">>, <<"'">>))

(***************************************************************************)
(* teams-manager.ts: the function getAccessToken evaluates in the page.    *)
(* localStorage is the sequence of its entries in key(i) order, each a     *)
(* key text and a value text.                                              *)
(***************************************************************************)
\* String.prototype.toLowerCase, on the tokens that have capitals
ToLowerCase(s) ==
    [i \in 1..Len(s) |->
        CASE s[i] \in {"AccessToken", "ACCESSTOKEN"} -> "accesstoken"
          [] s[i] = "RefreshToken"                   -> "refreshtoken"
          [] OTHER                                   -> s[i]]

\* the test of lines 311-313 with || between the substrings
KeyMatchesAny(key) ==
    \/ Includes(key, <<"login.windows.net-accesstoken">>)
    \/ Includes(key, <<"teams.accessasuser.all">>)
    \/ Includes(key, <<"teams.office.com/.default">>)

\* lines 311-313: the key contains all three substrings
KeyMatches(key) ==
    /\ Includes(key, <<"login.windows.net-accesstoken">>)
    /\ Includes(key, <<"teams.accessasuser.all">>)
    /\ Includes(key, <<"teams.office.com/.default">>)

NotFound == [found |-> FALSE, secret |-> Null, warnLogs |-> 0, threw |-> FALSE]

\* the try body of lines 316-329 without its catch: the exception leaves
\* the evaluated function
EntryTryUncaught(value) ==
    LET p == JSONParseText(value)
        parsedValue == p.v
        secret == Get(parsedValue, "secret")
        credentialType == Get(parsedValue, "credentialType")
    IN  IF value = <<>> THEN NotFound                       \* if (!value) continue
        ELSE IF p.threw THEN [NotFound EXCEPT !.threw = TRUE]
        ELSE IF ~Truthy(parsedValue) \/ ~Truthy(secret) \/ ~Truthy(credentialType)
        THEN NotFound
        ELSE IF credentialType.k /= "string"
        THEN [NotFound EXCEPT !.threw = TRUE]
        ELSE IF ToLowerCase(credentialType.s) = <<"accesstoken">>
        THEN [NotFound EXCEPT !.found = TRUE, !.secret = secret]
        ELSE NotFound

\* lines 315-333: the try around one matching key's value; the catch warns
\* and continues
EntryTry(value) ==
    LET p == JSONParseText(value)
        parsedValue == p.v
        secret == Get(parsedValue, "secret")
        credentialType == Get(parsedValue, "credentialType")
    IN  IF value = <<>> THEN NotFound                       \* if (!value) continue
        ELSE IF p.threw THEN [NotFound EXCEPT !.warnLogs = 1]
        ELSE IF ~Truthy(parsedValue) \/ ~Truthy(secret) \/ ~Truthy(credentialType)
        THEN NotFound
        ELSE IF credentialType.k /= "string"                \* toLowerCase is not a function
        THEN [NotFound EXCEPT !.warnLogs = 1]
        ELSE IF ToLowerCase(credentialType.s) = <<"accesstoken">>
        THEN [NotFound EXCEPT !.found = TRUE, !.secret = secret]
        ELSE NotFound

\* lines 306-338: the loop from index i on; warnLogs counts console.warn
RECURSIVE ScanLocalStorage(_, _, _)
ScanLocalStorage(storage, i, warnLogs) ==
    IF i > Len(storage)
    THEN [NotFound EXCEPT !.warnLogs = warnLogs]            \* return null
    ELSE LET key == storage[i].key
             e == EntryTry(storage[i].value)
         IN  IF key = <<>> \/ ~KeyMatches(key)
             THEN ScanLocalStorage(storage, i + 1, warnLogs)
             ELSE IF e.threw
             THEN [NotFound EXCEPT !.warnLogs = warnLogs, !.threw = TRUE]
             ELSE IF e.found THEN [e EXCEPT !.warnLogs = warnLogs]
             ELSE ScanLocalStorage(storage, i + 1, warnLogs + e.warnLogs)

\* lines 299-348: page is "absent" (chromePage is null), "closed" (evaluate
\* rejects) or "open"; rejects says the evaluation fails for another reason
getAccessToken(page, storage, rejects) ==
    LET scan == ScanLocalStorage(storage, 1, 0)
        none == [accessToken |-> Null, threw |-> FALSE, errorLogs |-> 0,
                 warnLogs |-> 0, rejects |-> rejects]
    IN  IF page = "absent" THEN none
        ELSE IF page = "closed" \/ rejects \/ scan.threw
        THEN [none EXCEPT !.errorLogs = 1]                  \* outer catch
        ELSE [none EXCEPT !.accessToken = scan.secret, !.warnLogs = scan.warnLogs]

\* teams-manager.ts: isAuthenticated (lines 44-48) for the token
\* getAccessToken returned; a truthy token that is no string has no trim
isAuthenticatedWith(accessToken) ==
    IF ~Truthy(accessToken)
    THEN [isAuthenticated |-> FALSE, accessToken |-> Null, threw |-> FALSE]
    ELSE IF accessToken.k /= "string"
    THEN [isAuthenticated |-> FALSE, accessToken |-> Null, threw |-> TRUE]
    ELSE IF Trim(accessToken.s) /= <<>>
    THEN [isAuthenticated |-> TRUE, accessToken |-> accessToken, threw |-> FALSE]
    ELSE [isAuthenticated |-> FALSE, accessToken |-> Null, threw |-> FALSE]

(***************************************************************************)
(* State                                                                   *)
(***************************************************************************)
VARIABLES
    \* TeamsManager (0 is null; NoBlocker is the null blocker id)
    chromeBrowser, chromePage, chromeKeepAliveInterval, powerSaveBlockerId,
    isTeamsActive,
    \* NotificationManager
    nmChromePage, currentNotificationSession, isMonitoringNotifications,
    activeCDPSessions,
    cdpClient,          \* per launched browser, the _cdpClient of its page
    \* TrayManager: the isTeamsActive the menu's click handler closed over
    trayIsTeamsActive,
    \* Chrome: running browser processes, open pages, attached CDP sessions,
    \* the sessions carrying the 'sessionattached' handler, the sessions
    \* carrying the frame handler, the page and parent of each session ever
    \* created, whether the profile holds a Teams access token
    browsers, pages, attached, listening, frameHandlers, sessions, signedIn,
    \* Chrome's debugger: the sessions with auto-attach on, the targets paused
    \* at start until resumed, the sessions with the Network domain enabled,
    \* the sessions Runtime.runIfWaitingForDebugger was sent on
    autoAttach, waitingForDebugger, networkEnabled, resumeSent,
    \* the page's localStorage as getAccessToken reads it, and the description
    \* its entries were written from
    localStorage, storageDesc,
    \* a getAccessToken call observed on its own: its position and its result
    tokenPhase, tokenOut,
    \* a 'send-teams-message' call observed on its own: its position, the
    \* token it handled, its result, what it wrote to the logs and consoles
    \* and what it sent to the Teams API
    sendOut,
    \* the calls suspended at an await, and what the calls that ran in steps
    \* between awaits did so far: the result of the last poll and the last
    \* 'teams-auth-status' event a poll sent, whether a poll ended without
    \* sending one, whether a poll found a token, whether a poll began or
    \* sent its event after that, the timeout dialogs shown, whether
    \* stopChrome has returned, the steps a stopChrome call began and
    \* completed in their order, whether a stop was called while
    \* startMonitoring was suspended, the sessions
    \* storage.endNotificationSession has been called for
    inFlight, observed,
    \* Electron / Node: started power-save blockers, ids handed out,
    \* scheduled keep-alive intervals, live authCheckInterval timers
    blockers, blockerSeq, intervals, authCheckIntervals,
    \* handler runs so far in which an awaited operation rejected
    failures,
    \* AppStorage (the columns the core keys on)
    dbMessages,         \* notification_messages rows: [id, sessionId]
    dbSessions,         \* notification_sessions rows, by id
    \* clock / random source behind generateMessageId
    genCount,
    \* the frame-received event in progress and what processing it did
    framePhase, frameDesc, payloadData, frameOut,
    \* history of the last entry point: its name, whether an exception left
    \* it, whether it ran stopMonitoring past the guard, how many detach
    \* calls threw in it
    lastCall, lastThrew, tornDown, detachThrown

lifecycleVars ==
    <<chromeBrowser, chromePage, chromeKeepAliveInterval, powerSaveBlockerId,
      isTeamsActive, nmChromePage, isMonitoringNotifications, activeCDPSessions,
      cdpClient, trayIsTeamsActive, browsers, pages, attached, listening,
      frameHandlers, sessions, signedIn, autoAttach, waitingForDebugger,
      networkEnabled, resumeSent, blockers, blockerSeq, intervals,
      authCheckIntervals, failures, localStorage, storageDesc, inFlight, observed,
      lastCall, lastThrew, tornDown, detachThrown>>

frameVars == <<genCount, framePhase, frameDesc, payloadData, frameOut>>

tokenVars == <<tokenPhase, tokenOut, sendOut>>

vars ==
    <<lifecycleVars, frameVars, tokenVars, currentNotificationSession, dbMessages,
      dbSessions>>

NoSession == 0

(***************************************************************************)
(* helpers.ts: generateMessageId.  `msg_${Date.now()}_${random}` is a      *)
(* fresh token; n counts the tokens handed out so far.                     *)
(***************************************************************************)
generateMessageId(n) == <<"msg_">> \o [i \in 1..n |-> "#"]

\* the transaction with INSERT OR IGNORE: a stored id is skipped, the count is not
addNotificationMessageInsertOrIgnore(db, sessionId, message, ioError) ==
    IF ioError
    THEN [threw |-> TRUE, db |-> db]
    ELSE [threw |-> FALSE,
          db |-> [messages |-> IF \E m \in db.messages : m.id = message.id
                               THEN db.messages
                               ELSE db.messages \cup
                                        {[id |-> message.id, sessionId |-> sessionId]},
                  sessions |-> [i \in DOMAIN db.sessions |->
                                 IF i = sessionId
                                 THEN [db.sessions[i] EXCEPT !.messageCount = @ + 1]
                                 ELSE db.sessions[i]]]]

(***************************************************************************)
(* storage.ts: addNotificationMessage.  One transaction: INSERT the row    *)
(* (id is the PRIMARY KEY, so a stored id makes it throw) and increment    *)
(* the session's message_count.  ioError is any other failure of the       *)
(* write.  A throw rolls the transaction back.                             *)
(***************************************************************************)
addNotificationMessage(db, sessionId, message, ioError) ==
    IF ioError \/ \E m \in db.messages : m.id = message.id
    THEN [threw |-> TRUE, db |-> db]
    ELSE [threw |-> FALSE,
          db |-> [messages |-> db.messages \cup
                                 {[id |-> message.id, sessionId |-> sessionId]},
                  sessions |-> [i \in DOMAIN db.sessions |->
                                 IF i = sessionId
                                 THEN [db.sessions[i] EXCEPT !.messageCount = @ + 1]
                                 ELSE db.sessions[i]]]]

(***************************************************************************)
(* notification-manager.ts: processNotificationPayload                     *)
(* The effect of a call: the records built, the records handed to          *)
(* storage.addNotificationMessage, the 'new-notification' events sent,     *)
(* the JSON.parse calls made, the console.error entries written, whether   *)
(* an exception left the call, and the storage and id source afterwards.   *)
(***************************************************************************)
NoEffect(db, gen) ==
    [records |-> <<>>, persisted |-> <<>>, ui |-> <<>>, parseCalls |-> 0,
     errorLogs |-> 0, threw |-> FALSE, db |-> db, gen |-> gen]

dontContains == {"Event", "Call", "ThreadActivity", "MemberConsumptionHorizonUpdate"}

\* the outer condition without url.endsWith('/messaging')
EnvelopeMatchesAnySuffix(messageData) ==
    LET url == Get(messageData, "url")
    IN  IF messageData.k \in {"undefined", "null"} THEN "throw"
        ELSE IF ~Truthy(url) THEN "no"
        ELSE IF url.k /= "string" THEN "throw"
        ELSE IF ~Includes(url.s, <<"v4/f">>) THEN "no"
        ELSE IF ~Truthy(Get(messageData, "body")) THEN "no"
        ELSE IF ~LooseEq(Get(messageData, "method"), <<"POST">>) THEN "no"
        ELSE "yes"

\* the condition of the outer if: "yes", "no", or "throw" (a TypeError)
EnvelopeMatches(messageData) ==
    LET url == Get(messageData, "url")
    IN  IF messageData.k \in {"undefined", "null"} THEN "throw"
        ELSE IF ~Truthy(url) THEN "no"
        ELSE IF url.k /= "string" THEN "throw"  \* url.includes is not a function
        ELSE IF ~Includes(url.s, <<"v4/f">>) THEN "no"
        ELSE IF ~EndsWith(url.s, <<"/messaging">>) THEN "no"
        ELSE IF ~Truthy(Get(messageData, "body")) THEN "no"
        ELSE IF ~LooseEq(Get(messageData, "method"), <<"POST">>) THEN "no"
        ELSE "yes"

\* the inner condition with the denylist compared by equality, not includes
BodyMatchesExactType(notificationBody, session) ==
    LET resource == Get(notificationBody, "resource")
        messageType == Get(resource, "messageType")
    IN  IF notificationBody.k \in {"undefined", "null"} THEN "throw"
        ELSE IF ~Truthy(resource) THEN "no"
        ELSE IF ~LooseEq(Get(notificationBody, "type"), <<"EventMessage">>) THEN "no"
        ELSE IF ~LooseEq(Get(notificationBody, "resourceType"), <<"NewMessage">>) THEN "no"
        ELSE IF ~Truthy(Get(resource, "content")) THEN "no"
        ELSE IF session = NoSession THEN "no"
        ELSE IF ~Truthy(messageType) THEN "no"
        ELSE IF messageType.k /= "string" THEN "throw"
        ELSE IF \E type \in dontContains : messageType.s = <<type>> THEN "no"
        ELSE "yes"

\* the condition of the inner if
BodyMatches(notificationBody, session) ==
    LET resource == Get(notificationBody, "resource")
        messageType == Get(resource, "messageType")
    IN  IF notificationBody.k \in {"undefined", "null"} THEN "throw"
        ELSE IF ~Truthy(resource) THEN "no"
        ELSE IF ~LooseEq(Get(notificationBody, "type"), <<"EventMessage">>) THEN "no"
        ELSE IF ~LooseEq(Get(notificationBody, "resourceType"), <<"NewMessage">>) THEN "no"
        ELSE IF ~Truthy(Get(resource, "content")) THEN "no"
        ELSE IF session = NoSession THEN "no"
        ELSE IF ~Truthy(messageType) THEN "no"
        ELSE IF messageType.k /= "string" THEN "throw"  \* .includes is not a function
        ELSE IF \E type \in dontContains : Includes(messageType.s, <<type>>) THEN "no"
        ELSE "yes"

\* the object literal with the content copied as it came
BuildNotificationRaw(notificationBody, session, gen) ==
    LET resource == Get(notificationBody, "resource")
    IN  [id |-> OrElse(Get(resource, "id"), Str(generateMessageId(gen))),
         sessionId |-> session,
         timestamp |-> OrElse(Get(notificationBody, "time"), Str(<<"now">>)),
         from |-> OrElse(Get(resource, "imdisplayname"), Str(<<"Unknown">>)),
         content |-> Get(resource, "content"),
         conversationId |-> OrElse(Get(resource, "to"), Str(<<>>)),
         conversationName |-> OrElse(Get(resource, "threadtopic"), Str(<<>>)),
         messageType |-> OrElse(Get(resource, "messagetype"), Str(<<"Text">>)),
         isRead |-> FALSE]

\* the object literal with the conversation id defaulting like the sender
BuildNotificationUnknownConversation(notificationBody, session, gen) ==
    LET resource == Get(notificationBody, "resource")
    IN  [id |-> OrElse(Get(resource, "id"), Str(generateMessageId(gen))),
         sessionId |-> session,
         timestamp |-> OrElse(Get(notificationBody, "time"), Str(<<"now">>)),
         from |-> OrElse(Get(resource, "imdisplayname"), Str(<<"Unknown">>)),
         content |-> Str(extractTextFromHtml(Get(resource, "content").s)),
         conversationId |-> OrElse(Get(resource, "to"), Str(<<"Unknown">>)),
         conversationName |-> OrElse(Get(resource, "threadtopic"), Str(<<>>)),
         messageType |-> OrElse(Get(resource, "messagetype"), Str(<<"Text">>)),
         isRead |-> FALSE]

\* the object literal of lines 336-346; gen is the id source after the id was taken
BuildNotification(notificationBody, session, gen) ==
    LET resource == Get(notificationBody, "resource")
    IN  [id |-> OrElse(Get(resource, "id"), Str(generateMessageId(gen))),
         sessionId |-> session,
         timestamp |-> OrElse(Get(notificationBody, "time"), Str(<<"now">>)),
         from |-> OrElse(Get(resource, "imdisplayname"), Str(<<"Unknown">>)),
         content |-> Str(extractTextFromHtml(Get(resource, "content").s)),
         conversationId |-> OrElse(Get(resource, "to"), Str(<<>>)),
         conversationName |-> OrElse(Get(resource, "threadtopic"), Str(<<>>)),
         messageType |-> OrElse(Get(resource, "messagetype"), Str(<<"Text">>)),
         isRead |-> FALSE]

\* lines 336-353 with the UI notified before the write is awaited
EmitNotificationUiFirst(notificationBody, session, db, gen, ioError, base) ==
    LET resource == Get(notificationBody, "resource")
        gen1 == IF Truthy(Get(resource, "id")) THEN gen ELSE gen + 1
    IN  IF Get(resource, "content").k /= "string"
        THEN [base EXCEPT !.threw = TRUE, !.gen = gen1]
        ELSE LET notification == BuildNotification(notificationBody, session, gen1)
                 w == addNotificationMessage(db, session, notification, ioError)
             IN  [base EXCEPT !.records = <<notification>>,
                              !.persisted = <<notification>>,
                              !.ui = <<notification>>,
                              !.threw = w.threw,
                              !.db = w.db, !.gen = gen1]

\* lines 336-353: build the record, store it, notify the UI
EmitNotification(notificationBody, session, db, gen, ioError, base) ==
    LET resource == Get(notificationBody, "resource")
        gen1 == IF Truthy(Get(resource, "id")) THEN gen ELSE gen + 1
    IN  IF Get(resource, "content").k /= "string"
        THEN [base EXCEPT !.threw = TRUE, !.gen = gen1]  \* html.replace is not a function
        ELSE LET notification == BuildNotification(notificationBody, session, gen1)
                 w == addNotificationMessage(db, session, notification, ioError)
             IN  IF w.threw
                 THEN [base EXCEPT !.records = <<notification>>,
                                   !.persisted = <<notification>>,
                                   !.threw = TRUE, !.gen = gen1]
                 ELSE [base EXCEPT !.records = <<notification>>,
                                   !.persisted = <<notification>>,
                                   !.ui = <<notification>>,
                                   !.db = w.db, !.gen = gen1]

\* the body of the outer try (lines 302-356)
NotificationTry(payload, session, db, gen, ioError) ==
    LET p1 == JSONParseText(payload)
        e1 == [NoEffect(db, gen) EXCEPT !.parseCalls = 1]
        messageData == p1.v
        envelope == EnvelopeMatches(messageData)
        p2 == JSONParse(Get(messageData, "body"))
        e2 == [e1 EXCEPT !.parseCalls = 2]
        body == BodyMatches(p2.v, session)
    IN  IF p1.threw THEN [e1 EXCEPT !.threw = TRUE]
        ELSE IF envelope = "throw" THEN [e1 EXCEPT !.threw = TRUE]
        ELSE IF envelope = "no" THEN e1
        ELSE IF p2.threw
             THEN [e2 EXCEPT !.errorLogs = 1]   \* inner catch: console.error, return
        ELSE IF body = "throw" THEN [e2 EXCEPT !.threw = TRUE]
        ELSE IF body = "no" THEN e2
        ELSE EmitNotification(p2.v, session, db, gen, ioError, e2)

\* no outer catch: the exception leaves processNotificationPayload
Rethrow(e) == e

\* catch (error) { /* skip silently */ }
CatchSilently(e) == [e EXCEPT !.threw = FALSE]

processNotificationPayload(payload, session, db, gen, ioError) ==
    IF payload = <<>> THEN NoEffect(db, gen)
    ELSE CatchSilently(NotificationTry(payload, session, db, gen, ioError))

(***************************************************************************)
(* notification-manager.ts: processWebSocketMessage                        *)
(***************************************************************************)
\* processWebSocketMessage without the keep-alive check of lines 278-280
processWebSocketMessageNoPingCheck(data, session, db, gen, ioError) ==
    LET jsonStart == IndexOf(data, "{")
    IN  IF jsonStart /= -1
        THEN processNotificationPayload(Substring(data, jsonStart),
                                        session, db, gen, ioError)
        ELSE NoEffect(db, gen)

processWebSocketMessage(data, session, db, gen, ioError) ==
    IF StartsWith(data, <<"5", ":">>) THEN NoEffect(db, gen)
    ELSE LET jsonStart == IndexOf(data, "{")
         IN  IF jsonStart /= -1
             THEN processNotificationPayload(Substring(data, jsonStart),
                                             session, db, gen, ioError)
             ELSE NoEffect(db, gen)


(***************************************************************************)
(* The frames the page delivers.  A frame is described by its parts and    *)
(* written out as text; processing sees only the text.  DefaultFrame is    *)
(* the chat notification of a trouter socket; every described frame        *)
(* differs from it in at most MaxDeviations parts.                         *)
(***************************************************************************)
MaxDeviations == 1

UrlGood == Str(<<"https://x/", "v4/f", "1", "/messaging">>)

DefaultFrame ==
    [prefix |-> <<"3", ":", ":", ":">>,
     core |-> "envelope",        \* what follows the prefix
     url |-> UrlGood,
     method |-> Str(<<"POST">>),
     body |-> "json",            \* how the envelope carries the body
     top |-> "object",           \* the body text's top-level value
     type |-> Str(<<"EventMessage">>),
     resourceType |-> Str(<<"NewMessage">>),
     time |-> Str(<<"t0">>),
     resource |-> "object",
     content |-> Str(<<"<", "p", ">", "Hi", "<", "/p", ">">>),
     messageType |-> Str(<<"RichText", "/", "Html">>),
     messagetype |-> Str(<<"RichText", "/", "Html">>),
     id |-> Str(<<"m1">>),
     imdisplayname |-> Str(<<"Alice">>),
     to |-> Str(<<"c1">>),
     threadtopic |-> Str(<<"Topic">>),
     ioError |-> FALSE]          \* whether the storage write fails

Alternatives ==
    [prefix |-> {<<>>, <<"5", ":">>, <<"5">>, <<":", "5", ":">>},
     core |-> {"none", "truncated", "trailing"},
     url |-> {Undefined, Num(<<"5">>),
              Str(<<"https://x/", "v4/g", "/messaging">>),
              Str(<<"https://x/", "v4/f", "/messaging", "/poll">>)},
     method |-> {Undefined, Str(<<"GET">>)},
     body |-> {"absent", "garbage", "object", "number"},
     top |-> {"null"},
     type |-> {Str(<<"Other">>)},
     resourceType |-> {Undefined},
     time |-> {Undefined},
     resource |-> {"absent", "null"},
     content |-> {Undefined, Str(<<>>), Num(<<"5">>),
                  Str(<<" ", "a", "&", "amp;", "lt;", "b", "&", "nbsp;">>)},
     messageType |-> {Undefined, Str(<<>>), Num(<<"5">>), Str(<<"Text">>),
                      Str(<<"Event", "/", "Call">>),
                      Str(<<"RichText", "/", "Media_", "Call", "Recording">>),
                      Str(<<"ThreadActivity", "/", "AddMember">>),
                      Str(<<"Signal", "/", "MemberConsumptionHorizonUpdate">>)},
     messagetype |-> {Undefined, Str(<<"Event", "/", "Call">>)},
     id |-> {Undefined, Str(<<>>), Str(<<"m2">>)},
     imdisplayname |-> {Undefined, Str(<<>>)},
     to |-> {Undefined},
     threadtopic |-> {Undefined},
     ioError |-> {TRUE}]

RECURSIVE DeviationsOf(_)
DeviationsOf(n) ==
    IF n = 0 THEN {DefaultFrame}
    ELSE LET less == DeviationsOf(n - 1)
         IN  less \cup
             UNION {{[d EXCEPT ![f] = a] : a \in Alternatives[f]} :
                    d \in less, f \in DOMAIN Alternatives}

FrameDescs == DeviationsOf(MaxDeviations)

\* JSON.stringify of a primitive
ValueText(v) ==
    CASE v.k = "string" -> <<QUOTE>> \o v.s \o <<QUOTE>>
      [] v.k = "number" -> v.s
      [] OTHER          -> <<"null">>

MemberText(key, v) == IF v.k = "undefined" THEN <<>> ELSE <<key>> \o ValueText(v)

ResourceText(d) ==
    <<"{">> \o MemberText("id", d.id) \o MemberText("content", d.content)
            \o MemberText("messageType", d.messageType)
            \o MemberText("messagetype", d.messagetype)
            \o MemberText("imdisplayname", d.imdisplayname)
            \o MemberText("to", d.to)
            \o MemberText("threadtopic", d.threadtopic) \o <<"}">>

BodyText(d) ==
    IF d.top = "null" THEN <<"null">>
    ELSE <<"{">> \o MemberText("type", d.type)
                 \o MemberText("resourceType", d.resourceType)
                 \o MemberText("time", d.time)
                 \o (CASE d.resource = "absent" -> <<>>
                       [] d.resource = "null"   -> <<"resource", "null">>
                       [] OTHER                 -> <<"resource">> \o ResourceText(d))
                 \o <<"}">>

\* the escapes a string literal needs
Escape(s) == [i \in 1..Len(s) |-> IF s[i] = QUOTE THEN ESCQUOTE ELSE s[i]]

BodyMemberText(d) ==
    CASE d.body = "absent"  -> <<>>
      [] d.body = "garbage" -> <<"body", QUOTE, "oops", QUOTE>>
      [] d.body = "number"  -> <<"body", "5">>
      [] d.body = "object"  -> <<"body">> \o BodyText(d)
      [] OTHER              -> <<"body", QUOTE>> \o Escape(BodyText(d)) \o <<QUOTE>>

EnvelopeText(d) ==
    <<"{">> \o MemberText("url", d.url) \o MemberText("method", d.method)
            \o BodyMemberText(d) \o <<"}">>

FrameText(d) ==
    d.prefix \o
    (CASE d.core = "none"      -> <<>>
       [] d.core = "truncated" -> SubSeq(EnvelopeText(d), 1, Len(EnvelopeText(d)) - 1)
       [] d.core = "trailing"  -> EnvelopeText(d) \o <<"}">>
       [] OTHER                -> EnvelopeText(d))

(***************************************************************************)
(* The localStorage entries of the page.  An entry is described by the     *)
(* required substrings its key contains and by what its value holds, and   *)
(* written out as a key text and a value text; the scan sees only the      *)
(* texts.  DefaultEntry is the access-token entry Teams writes at sign-in; *)
(* every described entry differs from it in at most one part.              *)
(***************************************************************************)
MaxKeys == 2            \* entries in localStorage

RequiredSubstrings ==
    <<"login.windows.net-accesstoken", "teams.accessasuser.all",
      "teams.office.com/.default">>

DefaultEntry ==
    [parts |-> {1, 2, 3},       \* the RequiredSubstrings in the key
     shape |-> "object",        \* what the value text is
     secret |-> "own",          \* the secret member: a token of its own
     credentialType |-> Str(<<"AccessToken">>)]

EntryDescs ==
    {DefaultEntry}
    \cup {[DefaultEntry EXCEPT !.parts = P] : P \in SUBSET {1, 2, 3}}
    \cup {[DefaultEntry EXCEPT !.shape = s] : s \in {"empty", "garbage", "null", "number"}}
    \cup {[DefaultEntry EXCEPT !.secret = s] : s \in {"absent", "empty", "number"}}
    \cup {[DefaultEntry EXCEPT !.credentialType = c] :
            c \in {Undefined, Str(<<>>), Str(<<"accesstoken">>), Str(<<"ACCESSTOKEN">>),
                   Str(<<"RefreshToken">>), Num(<<"5">>)}}

StorageDescs == UNION {[1..n -> EntryDescs] : n \in 0..MaxKeys}

\* the key of entry i: an account prefix, then the substrings it contains
KeyText(d, i) ==
    <<"acct", ToString(i)>>
    \o (IF 1 \in d.parts THEN <<"-", RequiredSubstrings[1]>> ELSE <<"-", "idtoken">>)
    \o (IF 2 \in d.parts THEN <<"-", RequiredSubstrings[2]>> ELSE <<>>)
    \o (IF 3 \in d.parts THEN <<" ", RequiredSubstrings[3]>> ELSE <<>>)

SecretOf(d, i) ==
    CASE d.secret = "own"    -> Str(<<"token", ToString(i)>>)
      [] d.secret = "jwt"    -> Str(<<"hdr", ".", "eyJvaWQiOiJ1MSJ9", ".", "sig", ToString(i)>>)
      [] d.secret = "badjwt" -> Str(<<"hdr", ".", "AAAA", ".", "sig", ToString(i)>>)
      [] d.secret = "empty"  -> Str(<<>>)
      [] d.secret = "number" -> Num(<<"5">>)
      [] OTHER               -> Undefined

EntryValueText(d, i) ==
    CASE d.shape = "empty"   -> <<>>
      [] d.shape = "garbage" -> <<"{", "secret", QUOTE, "oops">>
      [] d.shape = "null"    -> <<"null">>
      [] d.shape = "number"  -> <<"5">>
      [] OTHER               -> <<"{">> \o MemberText("secret", SecretOf(d, i))
                                       \o MemberText("credentialType", d.credentialType)
                                       \o <<"}">>

StorageText(sd) ==
    [i \in 1..Len(sd) |-> [key |-> KeyText(sd[i], i), value |-> EntryValueText(sd[i], i)]]

(***************************************************************************)
(* Lifecycle.  The handlers run against a record w of the lifecycle state  *)
(* (the variables above, plus threw: an exception in flight).  env names   *)
(* what the outside world does during one handler:                         *)
(*   env.fail       the operation that fails, or "none"                    *)
(*   env.detachFail the tracked sessions whose detach() throws             *)
(*   env.dialogOk   the button of the sign-in dialog                       *)
(***************************************************************************)
MaxLaunches == 2        \* browsers launched in a run

MaxChildSessions == 1   \* worker sessions auto-attached in a run

MaxPollTicks == 1       \* ticks taken of one authCheckInterval

maxChecks == 120

NoBlocker == -1

World ==
    [chromeBrowser |-> chromeBrowser, chromePage |-> chromePage,
     chromeKeepAliveInterval |-> chromeKeepAliveInterval,
     powerSaveBlockerId |-> powerSaveBlockerId, isTeamsActive |-> isTeamsActive,
     nmChromePage |-> nmChromePage,
     currentNotificationSession |-> currentNotificationSession,
     isMonitoringNotifications |-> isMonitoringNotifications,
     activeCDPSessions |-> activeCDPSessions, cdpClient |-> cdpClient,
     browsers |-> browsers, pages |-> pages, attached |-> attached,
     listening |-> listening, frameHandlers |-> frameHandlers,
     sessions |-> sessions, signedIn |-> signedIn,
     autoAttach |-> autoAttach, waitingForDebugger |-> waitingForDebugger,
     networkEnabled |-> networkEnabled, resumeSent |-> resumeSent,
     blockers |-> blockers, blockerSeq |-> blockerSeq, intervals |-> intervals,
     authCheckIntervals |-> authCheckIntervals, dbSessions |-> dbSessions,
     localStorage |-> localStorage, storageDesc |-> storageDesc,
     inFlight |-> inFlight, observed |-> observed,
     threw |-> FALSE, success |-> TRUE, tornDown |-> FALSE, detachThrown |-> 0]

MaxFailures == 1        \* handler runs in which the outside world fails

\* the awaited operations of each handler that can reject
MonitorFailures ==
    {"createNotificationSession", "createCDPSession", "setAutoAttach",
     "Network.enable"}

StartFailures == {"launch", "newPage", "navigate"} \cup MonitorFailures

StopFailures == {"clientDetach", "endNotificationSession", "pageClose", "browserClose"}

Fails(env) == env.fail /= "none" \/ env.detachFail /= {}

Envs(points, dialog) ==
    {env \in [fail : points \cup {"none"},
              detachFail : IF points = StopFailures
                           THEN SUBSET activeCDPSessions ELSE {{}},
              dialogOk : IF dialog THEN BOOLEAN ELSE {TRUE}] :
        Fails(env) => failures < MaxFailures}

\* a timer handle no live timer uses
NewTimer(w) ==
    CHOOSE n \in 1..(Cardinality(w.intervals) + Cardinality(w.authCheckIntervals) + 1) :
        /\ n \notin w.intervals
        /\ \A t \in w.authCheckIntervals : t.id /= n
        /\ \A m \in 1..(n - 1) :
              m \in w.intervals \/ \E t \in w.authCheckIntervals : t.id = m

\* the sessions of the targets of page p
SessionsOf(w, p) == {s \in 1..Len(w.sessions) : w.sessions[s].page = p}

(***************************************************************************)
(* teams-manager.ts: getAccessToken / isAuthenticated, as far as the       *)
(* lifecycle reads it: a token is found iff there is a page to evaluate    *)
(* in and the profile holds one.                                           *)
(***************************************************************************)
isAuthenticated(w) ==
    w.chromePage /= 0 /\ w.chromePage \in w.pages /\ w.signedIn

(***************************************************************************)
(* teams-manager.ts: startKeepAlive / stopKeepAlive                        *)
(* powerSaveBlocker.start hands out the ids 0, 1, 2, ... (blockerSeq).     *)
(***************************************************************************)
\* startKeepAlive without the chromeKeepAliveInterval half of its guard
startKeepAliveUnguarded(w) ==
    IF w.chromePage = 0 THEN w
    ELSE LET w1 == IF w.powerSaveBlockerId = NoBlocker \/ w.powerSaveBlockerId = 0
                   THEN [w EXCEPT !.powerSaveBlockerId = w.blockerSeq,
                                  !.blockers = @ \cup {w.blockerSeq},
                                  !.blockerSeq = @ + 1]
                   ELSE w
             timer == NewTimer(w1)
         IN  [w1 EXCEPT !.chromeKeepAliveInterval = timer,
                        !.intervals = @ \cup {timer},
                        !.isTeamsActive = TRUE]

startKeepAlive(w) ==
    IF w.chromePage = 0 \/ w.chromeKeepAliveInterval /= 0 THEN w
    ELSE LET \* if (!this.powerSaveBlockerId): null and the id 0 both pass
             w1 == IF w.powerSaveBlockerId = NoBlocker \/ w.powerSaveBlockerId = 0
                   THEN [w EXCEPT !.powerSaveBlockerId = w.blockerSeq,
                                  !.blockers = @ \cup {w.blockerSeq},
                                  !.blockerSeq = @ + 1]
                   ELSE w
             timer == NewTimer(w1)
         IN  [w1 EXCEPT !.chromeKeepAliveInterval = timer,
                        !.intervals = @ \cup {timer},
                        !.isTeamsActive = TRUE]

\* stopKeepAlive testing the inhibitor id for truthiness, as startKeepAlive does
stopKeepAliveTruthyId(w) ==
    LET w1 == IF w.chromeKeepAliveInterval /= 0
              THEN [w EXCEPT !.intervals = @ \ {w.chromeKeepAliveInterval},
                             !.chromeKeepAliveInterval = 0]
              ELSE w
        w2 == IF w1.powerSaveBlockerId /= NoBlocker /\ w1.powerSaveBlockerId /= 0
              THEN [w1 EXCEPT !.blockers = @ \ {w1.powerSaveBlockerId},
                              !.powerSaveBlockerId = NoBlocker]
              ELSE w1
    IN  [w2 EXCEPT !.isTeamsActive = FALSE]

stopKeepAlive(w) ==
    LET w1 == IF w.chromeKeepAliveInterval /= 0
              THEN [w EXCEPT !.intervals = @ \ {w.chromeKeepAliveInterval},
                             !.chromeKeepAliveInterval = 0]
              ELSE w
        w2 == IF w1.powerSaveBlockerId /= NoBlocker
              THEN [w1 EXCEPT !.blockers = @ \ {w1.powerSaveBlockerId},
                              !.powerSaveBlockerId = NoBlocker]
              ELSE w1
    IN  [w2 EXCEPT !.isTeamsActive = FALSE]

(***************************************************************************)
(* notification-manager.ts: subscribeToSession                             *)
(***************************************************************************)
subscribeToSession(w, session, env) ==
    LET w1 == [w EXCEPT !.activeCDPSessions = @ \cup {session},
                        !.listening = @ \cup {session}]
    IN  IF env.fail = "Network.enable"
        THEN [w1 EXCEPT !.activeCDPSessions = @ \ {session}]  \* catch: delete
        ELSE [w1 EXCEPT !.networkEnabled = @ \cup {session},
                        !.frameHandlers = @ \cup {session},
                        !.resumeSent = @ \cup {session},
                        !.waitingForDebugger = @ \ {session}]

(***************************************************************************)
(* notification-manager.ts: setupCDPNotitificationMonitoring               *)
(***************************************************************************)
setupCDPNotitificationMonitoring(w, env) ==
    IF w.nmChromePage = 0 \/ w.currentNotificationSession = NoSession THEN w
    ELSE IF w.nmChromePage \notin w.pages \/ env.fail = "createCDPSession"
    THEN w                                     \* createCDPSession throws; caught
    ELSE LET client == Len(w.sessions) + 1
             w1 == [w EXCEPT !.sessions =
                                 Append(@, [page |-> w.nmChromePage, parent |-> 0]),
                             !.attached = @ \cup {client}]
         IN  IF env.fail = "setAutoAttach" THEN w1      \* caught; client is lost
             ELSE LET w2 == subscribeToSession(
                                [w1 EXCEPT !.autoAttach = @ \cup {client}], client, env)
                  IN  IF w2.cdpClient[w2.nmChromePage] = 0
                      THEN [w2 EXCEPT !.cdpClient[w2.nmChromePage] = client]
                      ELSE w2

(***************************************************************************)
(* storage.ts: createNotificationSession / endNotificationSession          *)
(***************************************************************************)
createNotificationSession(w) ==
    [w EXCEPT !.dbSessions = Append(@, [isActive |-> TRUE, messageCount |-> 0])]

endNotificationSession(w, sessionId) ==
    [w EXCEPT !.dbSessions[sessionId].isActive = FALSE]

(***************************************************************************)
(* notification-manager.ts: startMonitoring / stopMonitoring               *)
(***************************************************************************)
startMonitoring(w, env) ==
    IF w.nmChromePage = 0 \/ w.isMonitoringNotifications THEN w
    ELSE IF env.fail = "createNotificationSession" THEN w      \* caught
    ELSE LET w1 == createNotificationSession(w)
             w2 == [w1 EXCEPT !.currentNotificationSession = Len(w1.dbSessions)]
             w3 == setupCDPNotitificationMonitoring(w2, env)
         IN  [w3 EXCEPT !.isMonitoringNotifications = TRUE]

\* sessions S are gone from Chrome: they deliver no further events
Detached(w, S) ==
    [w EXCEPT !.attached = @ \ S, !.listening = @ \ S, !.frameHandlers = @ \ S,
              !.autoAttach = @ \ S, !.waitingForDebugger = @ \ S,
              !.networkEnabled = @ \ S, !.resumeSent = @ \ S]

\* session.detach(): throws when the session is already detached or the
\* command fails; the session stays as it was then
DetachThrows(w, session, env) == session \notin w.attached \/ session \in env.detachFail

\* the loop without its inner try: the first throw leaves for the outer catch
DetachAllUnguarded(w, env) ==
    IF \E s \in w.activeCDPSessions : DetachThrows(w, s, env)
    THEN [w EXCEPT !.detachThrown = @ + 1]
    ELSE [Detached(w, w.activeCDPSessions) EXCEPT !.activeCDPSessions = {}]

\* lines 57-64: detach every tracked session, each in its own try, then clear
DetachAll(w, env) ==
    [Detached(w, {s \in w.activeCDPSessions : ~DetachThrows(w, s, env)})
        EXCEPT !.detachThrown =
                   @ + Cardinality({s \in w.activeCDPSessions : DetachThrows(w, s, env)}),
               !.activeCDPSessions = {}]

\* lines 67-74: detach the page's _cdpClient and forget it, in one try
DetachClient(w, env) ==
    LET client == IF w.nmChromePage = 0 THEN 0 ELSE w.cdpClient[w.nmChromePage]
    IN  IF client = 0 THEN w
        ELSE IF client \notin w.attached \/ env.fail = "clientDetach"
        THEN w                                  \* caught; _cdpClient stays
        ELSE [Detached(w, {client}) EXCEPT !.cdpClient[w.nmChromePage] = 0]

\* lines 77-83; a throwing endNotificationSession leaves for the outer catch
EndCurrentSession(w, env) ==
    IF w.currentNotificationSession = NoSession
    THEN [w EXCEPT !.isMonitoringNotifications = FALSE]
    ELSE IF env.fail = "endNotificationSession"
    THEN [w EXCEPT !.observed.endCalled = @ \cup {w.currentNotificationSession}]
    ELSE [endNotificationSession(w, w.currentNotificationSession)
            EXCEPT !.currentNotificationSession = NoSession,
                   !.isMonitoringNotifications = FALSE,
                   !.observed.endCalled = @ \cup {w.currentNotificationSession}]

stopMonitoring(w, env) ==
    IF ~w.isMonitoringNotifications THEN w
    ELSE [EndCurrentSession(DetachClient(DetachAll(w, env), env), env)
            EXCEPT !.tornDown = TRUE]

(***************************************************************************)
(* teams-manager.ts: stopChrome                                            *)
(***************************************************************************)
ClosePage(w, p) == [Detached(w, SessionsOf(w, p)) EXCEPT !.pages = @ \ {p}]

CloseBrowser(w, b) ==
    [Detached(w, SessionsOf(w, b)) EXCEPT !.browsers = @ \ {b}, !.pages = @ \ {b}]

\* the try body; threw marks the exception that ends it
StopChromeTry(w, env) ==
    LET w1 == stopKeepAlive(stopMonitoring(w, env))
        w2 == IF w1.chromePage /= 0 /\ w1.chromePage \in w1.pages
              THEN IF env.fail = "pageClose"
                   THEN [w1 EXCEPT !.threw = TRUE]
                   ELSE [ClosePage(w1, w1.chromePage) EXCEPT !.chromePage = 0]
              ELSE w1
    IN  IF w2.threw THEN w2
        ELSE IF w2.chromeBrowser = 0 THEN [w2 EXCEPT !.success = TRUE]
        ELSE IF env.fail = "browserClose" THEN [w2 EXCEPT !.threw = TRUE]
        ELSE [CloseBrowser(w2, w2.chromeBrowser) EXCEPT !.chromeBrowser = 0,
                                                        !.success = TRUE]

\* catch (error) { return { success: false, ... } }
Caught(w) == IF w.threw THEN [w EXCEPT !.threw = FALSE, !.success = FALSE] ELSE w

stopChrome(w, env) == Caught(StopChromeTry(w, env))

(***************************************************************************)
(* teams-manager.ts: monitorAuthentication and its interval callback       *)
(***************************************************************************)
monitorAuthentication(w) ==
    IF w.chromePage = 0 THEN w
    ELSE [w EXCEPT !.authCheckIntervals = @ \cup {[id |-> NewTimer(w), checkCount |-> 0]}]

authCheckTick(w, timer, env) ==
    LET ticked == [id |-> timer.id, checkCount |-> timer.checkCount + 1]
        others == w.authCheckIntervals \ {timer}
    IN  IF isAuthenticated(w)
        THEN startMonitoring(
                startKeepAlive([w EXCEPT !.authCheckIntervals = others]), env)
        ELSE IF ticked.checkCount >= maxChecks
        THEN [w EXCEPT !.authCheckIntervals = others]
        ELSE [w EXCEPT !.authCheckIntervals = others \cup {ticked}]

(***************************************************************************)
(* teams-manager.ts: startChrome                                           *)
(***************************************************************************)
\* lines 81-106, once the page has loaded
AfterNavigation(w, env) ==
    IF isAuthenticated(w)
    THEN [startMonitoring(startKeepAlive(w), env) EXCEPT !.success = TRUE]
    ELSE IF env.dialogOk THEN [monitorAuthentication(w) EXCEPT !.success = TRUE]
    ELSE [stopChrome(w, env) EXCEPT !.success = FALSE]

\* the try body; threw marks the exception that ends it.  The page of
\* browser b is page b.
StartChromeTry(w, env) ==
    IF env.fail = "launch" THEN [w EXCEPT !.threw = TRUE]
    ELSE LET browser == Len(w.cdpClient) + 1
             w1 == [w EXCEPT !.chromeBrowser = browser,
                             !.browsers = @ \cup {browser},
                             !.cdpClient = Append(@, 0)]
             w2 == [w1 EXCEPT !.chromePage = browser,
                              !.pages = @ \cup {browser},
                              !.nmChromePage = browser]
         IN  IF env.fail = "newPage" THEN [w1 EXCEPT !.threw = TRUE]
             ELSE IF env.fail = "navigate" THEN [w2 EXCEPT !.threw = TRUE]
             ELSE AfterNavigation(w2, env)


startChrome(w, env) == Caught(StartChromeTry(w, env))

(***************************************************************************)
(* Entry points.  Each runs to completion from the current state.          *)
(***************************************************************************)
Calm == [fail |-> "none", detachFail |-> {}, dialogOk |-> TRUE]

Commit(w, call, env) ==
    /\ chromeBrowser' = w.chromeBrowser
    /\ chromePage' = w.chromePage
    /\ chromeKeepAliveInterval' = w.chromeKeepAliveInterval
    /\ powerSaveBlockerId' = w.powerSaveBlockerId
    /\ isTeamsActive' = w.isTeamsActive
    /\ nmChromePage' = w.nmChromePage
    /\ currentNotificationSession' = w.currentNotificationSession
    /\ isMonitoringNotifications' = w.isMonitoringNotifications
    /\ activeCDPSessions' = w.activeCDPSessions
    /\ cdpClient' = w.cdpClient
    /\ browsers' = w.browsers
    /\ pages' = w.pages
    /\ attached' = w.attached
    /\ listening' = w.listening
    /\ frameHandlers' = w.frameHandlers
    /\ sessions' = w.sessions
    /\ signedIn' = w.signedIn
    /\ autoAttach' = w.autoAttach
    /\ waitingForDebugger' = w.waitingForDebugger
    /\ networkEnabled' = w.networkEnabled
    /\ resumeSent' = w.resumeSent
    /\ blockers' = w.blockers
    /\ blockerSeq' = w.blockerSeq
    /\ intervals' = w.intervals
    /\ authCheckIntervals' = w.authCheckIntervals
    /\ dbSessions' = w.dbSessions
    /\ localStorage' = w.localStorage
    /\ storageDesc' = w.storageDesc
    /\ inFlight' = w.inFlight
    /\ observed' = w.observed
    /\ failures' = IF Fails(env) THEN failures + 1 ELSE failures
    /\ lastCall' = call
    /\ lastThrew' = w.threw
    /\ tornDown' = w.tornDown
    /\ detachThrown' = w.detachThrown
    /\ UNCHANGED <<frameVars, tokenVars, dbMessages>>

\* ipc-handlers.ts: 'start-chrome-teams'
IpcStartChromeTeams ==
    /\ Len(cdpClient) < MaxLaunches
    /\ \E env \in Envs(StartFailures, TRUE) :
          LET w == startChrome(World, env)
          IN  /\ Commit(IF w.success THEN startMonitoring(w, env) ELSE w,
                        "startChrome", env)
              /\ UNCHANGED trayIsTeamsActive

\* ipc-handlers.ts: 'stop-chrome-teams'
IpcStopChromeTeams ==
    \E env \in Envs(StopFailures, FALSE) :
        /\ Commit(stopChrome(stopMonitoring(World, env), env), "stopChrome", env)
        /\ UNCHANGED trayIsTeamsActive

\* tray-manager.ts: the Start/Stop Keep-Alive item; isTeamsActive is the value
\* read when the menu was built
TrayClick ==
    IF trayIsTeamsActive
    THEN \E env \in Envs(StopFailures, FALSE) :
            LET w == stopChrome(World, env)
            IN  /\ Commit(w, "stopChrome", env)
                /\ trayIsTeamsActive' = w.isTeamsActive      \* updateTrayMenu
    ELSE /\ Len(cdpClient) < MaxLaunches
         /\ \E env \in Envs(StartFailures, TRUE) :
               LET w == startChrome(World, env)
               IN  /\ Commit(w, "startChrome", env)
                   /\ trayIsTeamsActive' = w.isTeamsActive   \* updateTrayMenu

\* teams-manager.ts: cleanup (tray Quit, before-quit)
TeamsCleanup ==
    \E env \in Envs(StopFailures, FALSE) :
        /\ Commit(stopChrome(World, env), "stopChrome", env)
        /\ UNCHANGED trayIsTeamsActive

\* notification-manager.ts: cleanup (before-quit)
NotificationCleanup ==
    \E env \in Envs(StopFailures, FALSE) :
        /\ Commit(stopMonitoring(World, env), "stopMonitoring", env)
        /\ UNCHANGED trayIsTeamsActive

\* teams-manager.ts: one firing of an authCheckInterval
AuthCheckTick ==
    \E timer \in authCheckIntervals, env \in Envs(MonitorFailures, FALSE) :
        /\ timer.checkCount < MaxPollTicks
        /\ Commit(authCheckTick(World, timer, env), "authCheck", env)
        /\ UNCHANGED trayIsTeamsActive

\* notification-manager.ts: the 'sessionattached' handler of a subscribed
\* session, for a worker that Chrome auto-attached under it
SessionAttached ==
    \E parent \in attached \cap listening, env \in Envs({"Network.enable"}, FALSE) :
        /\ Cardinality({s \in 1..Len(sessions) : sessions[s].parent /= 0})
              < MaxChildSessions
        /\ LET child == Len(sessions) + 1
               w == [World EXCEPT !.sessions = Append(@, [page |-> sessions[parent].page,
                                                          parent |-> parent]),
                                  !.attached = @ \cup {child},
                                  !.waitingForDebugger = @ \cup {child}]
           IN  Commit(subscribeToSession(w, child, env), "sessionattached", env)
        /\ UNCHANGED trayIsTeamsActive

\* the person at the Chrome window: signs in to Teams, closes the tab
UserSignsIn ==
    /\ ~signedIn
    /\ chromePage \in pages
    /\ Commit([World EXCEPT !.signedIn = TRUE,
                             !.storageDesc = <<DefaultEntry>>,
                             !.localStorage = StorageText(<<DefaultEntry>>)],
              "user", Calm)
    /\ UNCHANGED trayIsTeamsActive

UserClosesPage ==
    /\ chromePage \in pages
    /\ Commit(ClosePage(World, chromePage), "user", Calm)
    /\ UNCHANGED trayIsTeamsActive

(***************************************************************************)
(* The state after construction (index.ts: the managers are constructed,   *)
(* storage initialised, nothing started); the Chrome profile may hold a    *)
(* token from an earlier run.                                              *)
(***************************************************************************)
Constructed(token) ==
    [chromeBrowser |-> 0, chromePage |-> 0, chromeKeepAliveInterval |-> 0,
     powerSaveBlockerId |-> NoBlocker, isTeamsActive |-> FALSE,
     nmChromePage |-> 0, currentNotificationSession |-> NoSession,
     isMonitoringNotifications |-> FALSE, activeCDPSessions |-> {},
     cdpClient |-> <<>>, browsers |-> {}, pages |-> {}, attached |-> {},
     listening |-> {}, frameHandlers |-> {}, sessions |-> <<>>,
     signedIn |-> token, autoAttach |-> {}, waitingForDebugger |-> {},
     networkEnabled |-> {}, resumeSent |-> {},
     blockers |-> {}, blockerSeq |-> 0, intervals |-> {},
     authCheckIntervals |-> {}, dbSessions |-> <<>>,
     localStorage |-> StorageText(IF token THEN <<DefaultEntry>> ELSE <<>>),
     storageDesc |-> IF token THEN <<DefaultEntry>> ELSE <<>>,
     inFlight |-> {},
     observed |-> [lastResult |-> isAuthenticatedWith(Null),
                   lastStatus |-> [authenticated |-> FALSE, accessToken |-> Null],
                   unreported |-> FALSE, succeeded |-> FALSE,
                   afterSuccess |-> FALSE, timeouts |-> 0, stopReturned |-> FALSE,
                   order |-> <<>>, stoppedDuringStart |-> FALSE, runtimeRejected |-> {},
                   trackedAtStop |-> {}, detachInvoked |-> {}, monitoringStopped |-> FALSE,
                   knownAtStop |-> 0, leftBehind |-> {},
                   ticks |-> 0, failedTicks |-> {}, endCalled |-> {}],
     threw |-> FALSE, success |-> TRUE, tornDown |-> FALSE, detachThrown |-> 0]

Holds(w, call) ==
    /\ chromeBrowser = w.chromeBrowser
    /\ chromePage = w.chromePage
    /\ chromeKeepAliveInterval = w.chromeKeepAliveInterval
    /\ powerSaveBlockerId = w.powerSaveBlockerId
    /\ isTeamsActive = w.isTeamsActive
    /\ nmChromePage = w.nmChromePage
    /\ currentNotificationSession = w.currentNotificationSession
    /\ isMonitoringNotifications = w.isMonitoringNotifications
    /\ activeCDPSessions = w.activeCDPSessions
    /\ cdpClient = w.cdpClient
    /\ browsers = w.browsers
    /\ pages = w.pages
    /\ attached = w.attached
    /\ listening = w.listening
    /\ frameHandlers = w.frameHandlers
    /\ sessions = w.sessions
    /\ signedIn = w.signedIn
    /\ autoAttach = w.autoAttach
    /\ waitingForDebugger = w.waitingForDebugger
    /\ networkEnabled = w.networkEnabled
    /\ resumeSent = w.resumeSent
    /\ blockers = w.blockers
    /\ blockerSeq = w.blockerSeq
    /\ intervals = w.intervals
    /\ authCheckIntervals = w.authCheckIntervals
    /\ dbSessions = w.dbSessions
    /\ localStorage = w.localStorage
    /\ storageDesc = w.storageDesc
    /\ inFlight = w.inFlight
    /\ observed = w.observed
    /\ lastCall = call
    /\ lastThrew = w.threw
    /\ tornDown = w.tornDown
    /\ detachThrown = w.detachThrown
    /\ trayIsTeamsActive = FALSE

\* what a frame's processing did, with the storage and id source before it
Observed(out, db, gen) ==
    [records |-> out.records, persisted |-> out.persisted, ui |-> out.ui,
     parseCalls |-> out.parseCalls, errorLogs |-> out.errorLogs,
     threw |-> out.threw, db |-> out.db, gen |-> out.gen,
     dbBefore |-> db, genBefore |-> gen]

NoFrame ==
    /\ dbMessages = {}
    /\ genCount = 0
    /\ framePhase = "idle"
    /\ frameDesc = DefaultFrame
    /\ payloadData = <<>>
    /\ frameOut = Observed(NoEffect([messages |-> {}, sessions |-> dbSessions], 0),
                           [messages |-> {}, sessions |-> dbSessions], 0)

\* no getAccessToken call and no 'send-teams-message' call is being observed
NoSend ==
    [phase |-> "idle", accessToken |-> Null, success |-> FALSE, logs |-> {},
     requests |-> <<>>]

NoProbe ==
    /\ tokenPhase = "idle"
    /\ tokenOut = getAccessToken("absent", <<>>, FALSE)
    /\ sendOut = NoSend

Init ==
    /\ \E token \in BOOLEAN : Holds(Constructed(token), "constructor")
    /\ failures = 0
    /\ NoFrame
    /\ NoProbe

Next ==
    \/ IpcStartChromeTeams
    \/ IpcStopChromeTeams
    \/ TrayClick
    \/ TeamsCleanup
    \/ NotificationCleanup
    \/ AuthCheckTick
    \/ SessionAttached
    \/ UserSignsIn
    \/ UserClosesPage

Spec == Init /\ [][Next]_vars


(***************************************************************************)
(* Frames.  Monitoring is the state the IPC start handler leaves with a    *)
(* signed-in profile; Lingering is the state a stopMonitoring leaves when  *)
(* the detach of the root session keeps failing: monitoring is off and no  *)
(* notification session is current, but the session still delivers        *)
(* frames.                                                                 *)
(***************************************************************************)
MaxStored == 2          \* rows of notification_messages before frames stop

MaxGenerated == 1       \* ids taken from generateMessageId before frames stop

Monitoring == startMonitoring(startChrome(Constructed(TRUE), Calm), Calm)

Lingering ==
    stopMonitoring(Monitoring,
                   [fail |-> "clientDetach", detachFail |-> Monitoring.activeCDPSessions,
                    dialogOk |-> TRUE])

InitFrame ==
    /\ \/ Holds(Monitoring, "startChrome") /\ failures = 0
       \/ Holds(Lingering, "stopMonitoring") /\ failures = 1
    /\ NoFrame
    /\ NoProbe

\* lines 178-192: the 'Network.webSocketFrameReceived' handler of a session
FrameReceived ==
    /\ framePhase = "idle"
    /\ frameHandlers \cap attached /= {}
    /\ Cardinality(dbMessages) < MaxStored
    /\ genCount < MaxGenerated
    /\ \E d \in FrameDescs :
          LET data == FrameText(d)
              db == [messages |-> dbMessages, sessions |-> dbSessions]
              out == IF data /= <<>>      \* payloadData && typeof ... === 'string'
                     THEN processWebSocketMessage(data, currentNotificationSession,
                                                  db, genCount, d.ioError)
                     ELSE NoEffect(db, genCount)
          IN  /\ frameDesc' = d
              /\ payloadData' = data
              /\ frameOut' = Observed(out, db, genCount)
              /\ dbMessages' = out.db.messages
              /\ dbSessions' = out.db.sessions
              /\ genCount' = out.gen
    /\ framePhase' = "processed"
    /\ UNCHANGED <<lifecycleVars, tokenVars, currentNotificationSession>>

\* the same handler, for a frame whose text is that of the frame before it
\* (a payload the socket delivers again)
FrameRedelivered ==
    /\ framePhase = "processed"
    /\ frameHandlers \cap attached /= {}
    /\ LET db == [messages |-> dbMessages, sessions |-> dbSessions]
           out == IF payloadData /= <<>>
                  THEN processWebSocketMessage(payloadData, currentNotificationSession,
                                               db, genCount, frameDesc.ioError)
                  ELSE NoEffect(db, genCount)
       IN  /\ frameOut' = Observed(out, db, genCount)
           /\ dbMessages' = out.db.messages
           /\ dbSessions' = out.db.sessions
           /\ genCount' = out.gen
    /\ framePhase' = "replayed"
    /\ UNCHANGED <<lifecycleVars, tokenVars, currentNotificationSession, frameDesc,
                   payloadData>>

\* the handler has returned; the session waits for the next frame
FrameHandled ==
    /\ framePhase \in {"processed", "replayed"}
    /\ framePhase' = "idle"
    /\ frameDesc' = DefaultFrame
    /\ payloadData' = <<>>
    /\ frameOut' = Observed(NoEffect(frameOut.db, genCount), frameOut.db, genCount)
    /\ UNCHANGED <<lifecycleVars, tokenVars, currentNotificationSession,
                   dbMessages, dbSessions, genCount>>

NextFrame == FrameReceived \/ FrameRedelivered \/ FrameHandled

SpecFrame == InitFrame /\ [][NextFrame]_vars

(***************************************************************************)
(* The token scan on its own.  The page is absent (nothing launched), open *)
(* (launched on a signed-out profile, OK pressed, after which the page's   *)
(* scripts wrote the entries) or closed by the user after that.            *)
(***************************************************************************)
PageState ==
    IF chromePage = 0 THEN "absent"
    ELSE IF chromePage \in pages THEN "open" ELSE "closed"

Written(w, sd) ==
    [w EXCEPT !.storageDesc = sd,
              !.localStorage = StorageText(sd),
              !.signedIn = isAuthenticatedWith(
                               getAccessToken("open", StorageText(sd), FALSE).accessToken
                           ).isAuthenticated]

InitToken ==
    /\ \E sd \in StorageDescs :
          LET opened == Written(startChrome(Constructed(FALSE), Calm), sd)
          IN  \/ Holds(Written(Constructed(FALSE), sd), "constructor")
              \/ Holds(opened, "user")
              \/ Holds(ClosePage(opened, opened.chromePage), "user")
    /\ failures = 0
    /\ NoFrame
    /\ NoProbe

\* one call of getAccessToken
GetAccessToken ==
    /\ tokenPhase = "idle"
    /\ \E rejects \in BOOLEAN :
          /\ rejects => PageState = "open"
          /\ tokenOut' = getAccessToken(PageState, localStorage, rejects)
    /\ tokenPhase' = "returned"
    /\ UNCHANGED <<lifecycleVars, frameVars, currentNotificationSession, dbMessages,
                   dbSessions, sendOut>>

NextToken == GetAccessToken

SpecToken == InitToken /\ [][NextToken]_vars

(***************************************************************************)
(* Sending a message: the 'send-teams-message' handler, getAuthStatus and  *)
(* TeamsMessagingService.sendMessage.  A log entry is the sink it is       *)
(* written to (the page's console, or the application's console and log    *)
(* files) and its text.                                                    *)
(***************************************************************************)
Log(sink, text) == [sink |-> sink, text |-> text]

\* the entries one getAccessToken call writes: lines 327, 331 and 337 in the
\* page, line 345 in the application
getAccessTokenLogs(page, storage, rejects) ==
    LET matching == {i \in 1..Len(storage) : KeyMatches(storage[i].key)}
        found == {i \in matching : EntryTry(storage[i].value).found}
        scanned == {i \in matching : \A j \in found : i <= j}
    IN  IF page = "absent" THEN {}
        ELSE IF page = "closed" \/ rejects
        THEN {Log("console", <<"Failed to get access token from localStorage:", "Error">>)}
        ELSE {Log("page", <<"Failed to parse localStorage value for key:">>
                              \o storage[i].key \o <<"SyntaxError">>) :
                 i \in {j \in scanned : EntryTry(storage[j].value).warnLogs = 1}}
             \cup {Log("page", <<"Found Teams access token in localStorage key:">>
                                   \o storage[i].key) : i \in scanned \cap found}
             \cup (IF found = {}
                   THEN {Log("page", <<"No valid Teams access token found in localStorage">>)}
                   ELSE {})

\* teams-manager.ts: getAuthStatus (lines 161-167)
getAuthStatus(w, rejects) ==
    IF w.chromeBrowser = 0 \/ w.chromeBrowser \notin w.browsers
    THEN isAuthenticatedWith(Null)
    ELSE isAuthenticatedWith(
             getAccessToken(IF w.chromePage = 0 THEN "absent"
                            ELSE IF w.chromePage \in w.pages THEN "open" ELSE "closed",
                            w.localStorage, rejects).accessToken)

getAuthStatusLogs(w, rejects) ==
    IF w.chromeBrowser = 0 \/ w.chromeBrowser \notin w.browsers THEN {}
    ELSE getAccessTokenLogs(IF w.chromePage = 0 THEN "absent"
                            ELSE IF w.chromePage \in w.pages THEN "open" ELSE "closed",
                            w.localStorage, rejects)

\* Buffer.from(text, 'base64').toString('utf-8'), on the base64 texts in use
Base64Decode(s) ==
    IF s = <<"eyJvaWQiOiJ1MSJ9">> THEN <<"{", "oid", QUOTE, "u1", QUOTE, "}">>
    ELSE <<"\\uFFFD">>

\* teams-messaging.ts: extractUserIdFromToken (lines 162-180)
extractUserIdFromToken(accessToken) ==
    LET dots == {i \in 1..Len(accessToken) : accessToken[i] = "."}
        first == CHOOSE i \in dots : \A j \in dots : i <= j
        last == CHOOSE i \in dots : \A j \in dots : j <= i
        p == JSONParseText(Base64Decode(SubSeq(accessToken, first + 1, last - 1)))
    IN  IF Cardinality(dots) /= 2 THEN [userId |-> Null, logs |-> {}]
        ELSE IF p.threw \/ p.v.k = "null"
        THEN [userId |-> Null,
              logs |-> {Log("console", <<"WARN", "Failed to extract user ID from token:",
                                         "Error">>)}]
        ELSE [userId |-> OrElse(Get(p.v, "oid"),
                            OrElse(Get(p.v, "sub"),
                                OrElse(Get(p.v, "unique_name"), Null))),
              logs |-> {}]

\* teams-messaging.ts: escapeHtml (lines 182-189)
escapeHtml(text) ==
    ReplaceAll(
        ReplaceAll(
            ReplaceAll(
                ReplaceAll(
                    ReplaceAll(text, <<"&">>, <<"&", "amp;">>),
                    <<"<">>, <<"&", "lt;">>),
                <<">">>, <<"&", "gt;">>),
            <<QUOTE>>, <<"&", "quot;">>),
        <<"'">>, <<"&", "#039;">>)

\* encodeURIComponent, on the tokens it changes
encodeURIComponent(s) ==
    [i \in 1..Len(s) |->
        CASE s[i] = ":" -> "%3A"
          [] s[i] = " " -> "%20"
          [] s[i] = "@" -> "%40"
          [] OTHER      -> s[i]]

\* !s || !s.trim() of a string
Blank(s) == Trim(s) = <<>>

\* what a sendMessage call gives back and did
Sent(success, logs, requests) ==
    [success |-> success, logs |-> logs, requests |-> requests]

\* the request of lines 75-129 for the sender id taken from the token
RequestFor(conversationId, content, senderName, accessToken, fromUserId) ==
    [url |-> <<"https://teams.microsoft.com/api/chatsvc/amer/v1/users/ME/conversations/">>
                 \o encodeURIComponent(conversationId) \o <<"/messages">>,
     authorization |-> <<"Bearer ">> \o accessToken,
     body |-> <<"{", "conversationid", QUOTE>> \o Escape(conversationId)
                  \o <<QUOTE, "from", QUOTE>> \o Escape(fromUserId)
                  \o <<QUOTE, "content", QUOTE, "<", "p", ">">>
                  \o Escape(escapeHtml(content))
                  \o <<"<", "/p", ">", QUOTE, "imdisplayname", QUOTE>>
                  \o Escape(senderName) \o <<QUOTE, "}">>]

\* lines 130-159: the request is written out, sent, and its outcome logged
SendRequest(request, conversationId, logs, fetch) ==
    LET before ==
            logs \cup
            {Log("console", <<"INFO", "Sending Teams message to conversation:">>
                                \o conversationId),
             Log("console", <<"requestOptions", "{", "method:", "POST", "headers:", "{",
                              "authorization:">> \o request.authorization
                                \o <<"}", "body:">> \o request.body \o <<"}">>),
             Log("console", <<"INFO", "Making Teams API request to:">> \o request.url),
             Log("console", <<"DEBUG", "Request payload:">> \o request.body)}
    IN  CASE fetch = "ok" ->
                Sent(TRUE,
                     before \cup {Log("console", <<"INFO", "Teams message sent successfully">>),
                                  Log("console", <<"DEBUG", "Response data:", "response">>)},
                     <<request>>)
          [] fetch = "status" ->
                Sent(FALSE,
                     before \cup {Log("console", <<"ERROR", "Teams message send failed:",
                                                   "Teams API error:", "401", "response">>)},
                     <<request>>)
          [] OTHER ->
                Sent(FALSE,
                     before \cup {Log("console", <<"ERROR", "Failed to send Teams message:",
                                                   "FetchError">>),
                                  Log("console", <<"ERROR", "Error details:", "FetchError">>)},
                     <<request>>)

\* teams-messaging.ts: sendMessage (lines 48-160); the arguments are strings
\* or null
sendMessage(conversationId, content, senderName, accessToken, fetch) ==
    IF ~Truthy(accessToken) \/ Blank(accessToken.s)
    THEN Sent(FALSE, {Log("console", <<"ERROR", "Teams message send failed:",
                                       "No access token provided.">>)}, <<>>)
    ELSE IF Blank(conversationId)
    THEN Sent(FALSE, {Log("console", <<"ERROR", "Teams message send failed:",
                                       "No conversation ID provided.">>)}, <<>>)
    ELSE IF Blank(content)
    THEN Sent(FALSE, {Log("console", <<"ERROR", "Teams message send failed:",
                                       "No message content provided.">>)}, <<>>)
    ELSE SendRequest(
             RequestFor(conversationId, content, senderName, accessToken.s,
                        OrElse(extractUserIdFromToken(accessToken.s).userId,
                               Str(<<"8:orgid:5abd413c">>)).s),
             conversationId, extractUserIdFromToken(accessToken.s).logs, fetch)

\* ipc-handlers.ts 'send-teams-message', from line 96 on, for what
\* getAuthStatus gave and sendMessage gives
SendTeamsMessageWith(authStatus, authLogs, conversationId, result) ==
    LET started == authLogs \cup
                   {Log("console", <<"INFO", "IPC: Sending Teams message to conversation:">>
                                       \o conversationId)}
    IN  IF authStatus.threw
        THEN [phase |-> "returned", accessToken |-> Null, success |-> FALSE,
              logs |-> started \cup {Log("console", <<"ERROR", "IPC Teams message send error:",
                                                      "TypeError">>)},
              requests |-> <<>>]
        ELSE IF ~authStatus.isAuthenticated \/ ~Truthy(authStatus.accessToken)
        THEN [phase |-> "returned", accessToken |-> Null, success |-> FALSE,
              logs |-> started \cup {Log("console", <<"ERROR", "Teams message send failed:",
                                                      "Teams authentication required.">>)},
              requests |-> <<>>]
        ELSE [phase |-> "returned", accessToken |-> authStatus.accessToken,
              success |-> result.success,
              logs |-> started \cup result.logs
                       \cup {IF result.success
                             THEN Log("console", <<"INFO", "Teams message sent successfully via IPC">>)
                             ELSE Log("console", <<"ERROR", "Teams message send failed via IPC:",
                                                   "error">>)},
              requests |-> result.requests]

(***************************************************************************)
(* A send on its own: the browser is not launched, or launched with the    *)
(* page open or closed by the user; localStorage holds at most one entry.  *)
(***************************************************************************)
SentNames == {<<>>, <<" ">>, <<"19", ":", "c1">>}

SentContents == {<<>>, <<"Hi">>, <<"<", "b", ">", "&">>}

SendStorageDescs ==
    {<<>>} \cup {<<d>> : d \in EntryDescs \cup {[DefaultEntry EXCEPT !.secret = s] :
                                                   s \in {"jwt", "badjwt"}}}

InitSend ==
    /\ \E sd \in SendStorageDescs :
          LET opened == Written(startChrome(Constructed(FALSE), Calm), sd)
          IN  \/ Holds(Written(Constructed(FALSE), sd), "constructor")
              \/ Holds(opened, "user")
              \/ Holds(ClosePage(opened, opened.chromePage), "user")
    /\ failures = 0
    /\ NoFrame
    /\ NoProbe

\* one 'send-teams-message' call
SendTeamsMessage ==
    /\ sendOut.phase = "idle"
    /\ \E conversationId \in SentNames, content \in SentContents, rejects \in BOOLEAN,
          fetch \in {"ok", "status", "rejects"} :
          /\ rejects => PageState = "open"
          /\ sendOut' = SendTeamsMessageWith(
                            getAuthStatus(World, rejects),
                            getAuthStatusLogs(World, rejects),
                            conversationId,
                            sendMessage(conversationId, content, <<"Me">>,
                                        getAuthStatus(World, rejects).accessToken, fetch))
    /\ UNCHANGED <<lifecycleVars, frameVars, currentNotificationSession, dbMessages,
                   dbSessions, tokenPhase, tokenOut>>

NextSend == SendTeamsMessage

SpecSend == InitSend /\ [][NextSend]_vars

(***************************************************************************)
(* Calls in steps.  A call runs up to an await on Chrome, is suspended     *)
(* there (inFlight) and resumes when the awaited operation settles; other  *)
(* callbacks run in between.  setInterval fires the poll callback whether  *)
(* or not the callback before it has returned.  The steps: a poll up to    *)
(* its page.evaluate and from there on; startMonitoring up to its CDP      *)
(* setup and from there on; stopChrome up to chromePage.close() and from   *)
(* there on.                                                               *)
(***************************************************************************)
MaxInFlight == 2        \* poll callbacks suspended at the same time

MaxAsyncPolls == 3      \* firings of the poll timer when other calls run too

Suspended(op, timer, fired, page, checkCount) ==
    [op |-> op, timer |-> timer, fired |-> fired, page |-> page,
     checkCount |-> checkCount]

\* sendAuthStatus (lines 33-38)
sendAuthStatus(w, authenticated, accessToken) ==
    [w EXCEPT !.observed.lastStatus =
                  [authenticated |-> authenticated,
                   accessToken |-> IF authenticated THEN accessToken ELSE Null],
              !.observed.afterSuccess = @ \/ w.observed.succeeded]

clearInterval(w, id) ==
    [w EXCEPT !.authCheckIntervals = {t \in @ : t.id /= id}]

\* startMonitoring, lines 25-40: the guard, the session record, then the
\* await of the CDP setup
startMonitoringBegins(w) ==
    IF w.nmChromePage = 0 \/ w.isMonitoringNotifications THEN w
    ELSE LET w1 == createNotificationSession(w)
             id == Len(w1.dbSessions)
         IN  [w1 EXCEPT !.currentNotificationSession = id,
                        !.inFlight = @ \cup {Suspended("startMonitoring", 0, id, 0, 0)}]

\* startMonitoring, lines 40-42: the setup and the flag
startMonitoringResumes(w, task) ==
    [setupCDPNotitificationMonitoring([w EXCEPT !.inFlight = @ \ {task}], Calm)
        EXCEPT !.isMonitoringNotifications = TRUE]

\* the callback closing the browser when the budget is used up
authCheckSettlesClosesOnTimeout(w, task, result) ==
    LET w1 == [w EXCEPT !.inFlight = @ \ {task},
                        !.observed.lastResult = result,
                        !.observed.unreported = @ \/ result.threw]
        w2 == sendAuthStatus(w1, result.isAuthenticated, result.accessToken)
    IN  IF result.threw THEN w1
        ELSE IF result.isAuthenticated
        THEN startMonitoringBegins(
                 startKeepAlive(
                     clearInterval([w2 EXCEPT !.observed.succeeded = TRUE],
                                   task.timer)))
        ELSE IF task.checkCount >= maxChecks
        THEN [CloseBrowser(clearInterval(w2, task.timer), w2.chromeBrowser)
                 EXCEPT !.observed.timeouts = @ + 1, !.chromeBrowser = 0, !.chromePage = 0]
        ELSE w2

\* the interval callback once isAuthenticated has settled with result (lines
\* 390-434); task.checkCount is the closure's checkCount as it is now
authCheckSettles(w, task, result) ==
    LET w1 == [w EXCEPT !.inFlight = @ \ {task},
                        !.observed.lastResult = result,
                        !.observed.unreported = @ \/ result.threw]
        w2 == sendAuthStatus(w1, result.isAuthenticated, result.accessToken)
    IN  IF result.threw THEN w1                     \* catch: console.error
        ELSE IF result.isAuthenticated
        THEN startMonitoringBegins(
                 startKeepAlive(
                     clearInterval([w2 EXCEPT !.observed.succeeded = TRUE],
                                   task.timer)))
        ELSE IF task.checkCount >= maxChecks
        THEN [clearInterval(w2, task.timer) EXCEPT !.observed.timeouts = @ + 1]
        ELSE w2

\* the interval callback from the settling of page.evaluate on (line 389):
\* getAccessToken reads the storage of the page the callback started on
authCheckResumes(w, task, rejects) ==
    authCheckSettles(w, task,
        isAuthenticatedWith(
            getAccessToken(IF task.page = 0 THEN "absent"
                           ELSE IF task.page \in w.pages THEN "open" ELSE "closed",
                           w.localStorage, rejects).accessToken))

\* the interval callback up to the await (lines 385-389, 299-303); without
\* a page getAccessToken returns at once and the callback runs on
authCheckBegins(w, timer) ==
    LET count == timer.checkCount + 1
        w1 == [w EXCEPT !.authCheckIntervals =
                            (@ \ {timer}) \cup {[timer EXCEPT !.checkCount = count]},
                        !.inFlight =
                            {IF t.op = "authCheck" /\ t.timer = timer.id
                             THEN [t EXCEPT !.checkCount = count] ELSE t : t \in @},
                        !.observed.afterSuccess = @ \/ w.observed.succeeded]
        slot == CHOOSE n \in 1..(Cardinality(w.inFlight) + 1) :
                    \A t \in w.inFlight : t.op = "authCheck" => t.fired /= n
        task == Suspended("authCheck", timer.id, slot, w.chromePage, count)
    IN  IF w.chromePage = 0 THEN authCheckResumes(w1, task, FALSE)
        ELSE [w1 EXCEPT !.inFlight = @ \cup {task}]

\* stopChrome, lines 131-137: the browser is closed and the call returns
stopChromeEnds(w) ==
    LET w1 == IF w.chromeBrowser = 0 THEN w
              ELSE [CloseBrowser(w, w.chromeBrowser) EXCEPT !.chromeBrowser = 0]
    IN  [w1 EXCEPT !.observed.stopReturned = TRUE]

\* stopChrome, lines 116-127: up to the await of chromePage.close()
stopChromeBegins(w) ==
    LET w1 == stopKeepAlive(stopMonitoring(w, Calm))
    IN  IF w1.chromePage /= 0 /\ w1.chromePage \in w1.pages
        THEN [w1 EXCEPT !.inFlight =
                            @ \cup {Suspended("stopChrome", 0, 0, w1.chromePage, 0)}]
        ELSE stopChromeEnds(w1)

\* stopChrome from the settling of chromePage.close() on (lines 128-137)
stopChromeResumes(w, task) ==
    stopChromeEnds([ClosePage([w EXCEPT !.inFlight = @ \ {task}], task.page)
                       EXCEPT !.chromePage = 0])

\* the state the tray's Start item (Polling) and the 'start-chrome-teams'
\* handler leave on a signed-out profile when OK is pressed in the dialog
Polling == startChrome(Constructed(FALSE), Calm)

InitAsync ==
    /\ \/ Holds(Polling, "startChrome")
       \/ Holds(startMonitoring(Polling, Calm), "startChrome")
    /\ failures = 0
    /\ NoFrame
    /\ NoProbe

\* a firing of the poll timer, among its first limit firings
AuthCheckFires(limit) ==
    \E timer \in authCheckIntervals :
        /\ timer.checkCount < limit
        /\ Cardinality({t \in inFlight : t.op = "authCheck"}) < MaxInFlight
        /\ Commit(authCheckBegins(World, timer), "authCheck", Calm)
        /\ UNCHANGED trayIsTeamsActive

AuthCheckBegins == AuthCheckFires(MaxAsyncPolls)

AuthCheckResumes ==
    \E task \in inFlight, rejects \in BOOLEAN :
        /\ task.op = "authCheck"
        /\ rejects => task.page \in pages
        /\ Commit(authCheckResumes(World, task, rejects), "authCheck", Calm)
        /\ UNCHANGED trayIsTeamsActive

StartMonitoringResumes ==
    \E task \in inFlight :
        /\ task.op = "startMonitoring"
        /\ Commit(startMonitoringResumes(World, task), "startMonitoring", Calm)
        /\ UNCHANGED trayIsTeamsActive

\* teams-manager.ts: cleanup / the tray's Stop item / 'stop-chrome-teams'
\* (whose own stopMonitoring comes first and leaves stopChrome's nothing to do)
StopChromeBegins ==
    /\ ~observed.stopReturned
    /\ \A t \in inFlight : t.op /= "stopChrome"
    /\ Commit(stopChromeBegins(World), "stopChrome", Calm)
    /\ UNCHANGED trayIsTeamsActive

StopChromeResumes ==
    \E task \in inFlight :
        /\ task.op = "stopChrome"
        /\ Commit(stopChromeResumes(World, task), "stopChrome", Calm)
        /\ UNCHANGED trayIsTeamsActive

\* the page's scripts write the token entry at sign-in
PageWritesToken ==
    /\ storageDesc = <<>>
    /\ chromePage \in pages
    /\ \E d \in {DefaultEntry, [DefaultEntry EXCEPT !.secret = "number"]} :
          Commit(Written(World, <<d>>), "user", Calm)
    /\ UNCHANGED trayIsTeamsActive

NextAsync ==
    \/ AuthCheckBegins
    \/ AuthCheckResumes
    \/ StartMonitoringResumes
    \/ StopChromeBegins
    \/ StopChromeResumes
    \/ PageWritesToken

SpecAsync == InitAsync /\ [][NextAsync]_vars

(***************************************************************************)
(* The poll on its own, run to its timeout: nobody signs in, nothing is    *)
(* stopped.                                                                *)
(***************************************************************************)
InitPoll ==
    /\ Holds(Polling, "startChrome")
    /\ failures = 0
    /\ NoFrame
    /\ NoProbe

AuthCheckBeginsToTimeout == AuthCheckFires(maxChecks + MaxInFlight)

NextPoll == AuthCheckBeginsToTimeout \/ AuthCheckResumes

SpecPoll == InitPoll /\ [][NextPoll]_vars

(***************************************************************************)
(* The keep-alive timer.  Its callback (lines 452-486) re-checks the sign-in *)
(* and, when signed in, injects activity into the page; the page's scripts *)
(* rewrite the token entry, the user closes the page, and stopChrome runs  *)
(* at any time.                                                            *)
(***************************************************************************)
MaxKeepAliveTicks == 3  \* firings of the keep-alive timer

\* the callback with a catch that gives the keep-alive up
keepAliveCatchStops(w, task) ==
    stopKeepAlive([w EXCEPT !.inFlight = @ \ {task},
                            !.observed.failedTicks = @ \cup {task.fired}])

\* the callback's catch (lines 483-485): console.error
keepAliveCatch(w, task) ==
    [w EXCEPT !.inFlight = @ \ {task},
              !.observed.failedTicks = @ \cup {task.fired}]

\* the callback up to the await of isAuthenticated (lines 452-455, 299-303)
keepAliveBegins(w) ==
    LET tick == w.observed.ticks + 1
        w1 == [w EXCEPT !.observed.ticks = tick]
    IN  IF w.chromePage /= 0 /\ w.chromePage \in w.pages
        THEN [w1 EXCEPT !.inFlight =
                            @ \cup {Suspended("keepAlive", w.chromeKeepAliveInterval,
                                              tick, w.chromePage, 0)}]
        ELSE w1

\* the callback giving the keep-alive up when the sign-in is lost
keepAliveSettlesStopsOnLoss(w, task, result) ==
    LET w1 == [w EXCEPT !.observed.lastResult = result]
        w2 == sendAuthStatus([w1 EXCEPT !.inFlight = @ \ {task}],
                             result.isAuthenticated, result.accessToken)
    IN  IF result.threw THEN keepAliveCatch(w1, task)
        ELSE IF ~result.isAuthenticated THEN stopKeepAlive(w2)
        ELSE IF w.chromePage = 0
        THEN keepAliveCatch(w2, task)
        ELSE [w2 EXCEPT !.inFlight =
                            @ \cup {Suspended("keepAliveActivity", task.timer, task.fired,
                                              w.chromePage, 0)}]

\* the callback once isAuthenticated has settled with result (lines
\* 455-479): the status is sent, and a signed-in page gets the activity
keepAliveSettles(w, task, result) ==
    LET w1 == [w EXCEPT !.observed.lastResult = result]
        w2 == sendAuthStatus([w1 EXCEPT !.inFlight = @ \ {task}],
                             result.isAuthenticated, result.accessToken)
    IN  IF result.threw THEN keepAliveCatch(w1, task)
        ELSE IF ~result.isAuthenticated THEN w2
        ELSE IF w.chromePage = 0
        THEN keepAliveCatch(w2, task)               \* this.chromePage is null
        ELSE [w2 EXCEPT !.inFlight =
                            @ \cup {Suspended("keepAliveActivity", task.timer, task.fired,
                                              w.chromePage, 0)}]

\* the callback from the settling of a page.evaluate on: getAccessToken's
\* (line 303) or the activity's (line 465)
keepAliveResumes(w, task, rejects) ==
    IF task.op = "keepAlive"
    THEN keepAliveSettles(w, task,
             isAuthenticatedWith(
                 getAccessToken(IF task.page \in w.pages THEN "open" ELSE "closed",
                                w.localStorage, rejects).accessToken))
    ELSE IF rejects \/ task.page \notin w.pages
    THEN keepAliveCatch(w, task)
    ELSE [w EXCEPT !.inFlight = @ \ {task}]

\* the token entries the page's scripts leave: none, a token, a number
KeepAliveStorageDescs ==
    {<<>>, <<DefaultEntry>>, <<[DefaultEntry EXCEPT !.secret = "number"]>>}

\* the 'start-chrome-teams' handler has run on a signed-in profile
InitKeepAlive ==
    /\ Holds(Monitoring, "startChrome")
    /\ failures = 0
    /\ NoFrame
    /\ NoProbe

KeepAliveFires ==
    /\ chromeKeepAliveInterval \in intervals
    /\ observed.ticks < MaxKeepAliveTicks
    /\ Cardinality({t \in inFlight : t.op \in {"keepAlive", "keepAliveActivity"}})
          < MaxInFlight
    /\ Commit(keepAliveBegins(World), "keepAlive", Calm)
    /\ UNCHANGED trayIsTeamsActive

KeepAliveResumes ==
    \E task \in inFlight, rejects \in BOOLEAN :
        /\ task.op \in {"keepAlive", "keepAliveActivity"}
        /\ rejects => task.page \in pages
        /\ Commit(keepAliveResumes(World, task, rejects), "keepAlive", Calm)
        /\ UNCHANGED trayIsTeamsActive

PageRewritesToken ==
    /\ chromePage \in pages
    /\ \E sd \in KeepAliveStorageDescs :
          /\ sd /= storageDesc
          /\ Commit(Written(World, sd), "user", Calm)
    /\ UNCHANGED trayIsTeamsActive

NextKeepAlive ==
    \/ KeepAliveFires
    \/ KeepAliveResumes
    \/ PageRewritesToken
    \/ UserClosesPage
    \/ StopChromeBegins
    \/ StopChromeResumes

SpecKeepAlive == InitKeepAlive /\ [][NextKeepAlive]_vars

(***************************************************************************)
(* Sessions in steps.  startMonitoring / setupCDPNotitificationMonitoring, *)
(* subscribeToSession, stopMonitoring and stopChrome run from one awaited  *)
(* CDP command to the next; a suspended call is the record of its          *)
(* position, and ok says whether the awaited command resolved.  Chrome     *)
(* attaches a new worker of the page, paused at start, under an attached   *)
(* session once auto-attach is on, and puppeteer emits 'sessionattached'   *)
(* on the parent.                                                          *)
(***************************************************************************)
MaxWorkers == 2         \* workers Chrome attaches in a run

Step(op, session, at, caller) ==
    [op |-> op, session |-> session, at |-> at, caller |-> caller]

Mark(w, step) == [w EXCEPT !.observed.order = Append(@, step)]

\* startMonitoring line 42, reached whatever the setup did
startMonitoringEnds(w) == [w EXCEPT !.isMonitoringNotifications = TRUE]

\* setupCDPNotitificationMonitoring lines 239-269, then startMonitoring
SetupEnds(w, client) ==
    startMonitoringEnds(
        IF w.nmChromePage /= 0 /\ w.cdpClient[w.nmChromePage] = 0
        THEN [w EXCEPT !.cdpClient[w.nmChromePage] = client]
        ELSE w)

\* subscribeToSession has returned; the setup awaited the root's and
\* sends Target.getTargets (line 240)
SubscribeEnds(w, task) ==
    IF task.caller = "setup"
    THEN [w EXCEPT !.inFlight = @ \cup {Step("setup", task.session, "Target.getTargets",
                                             "startMonitoring")}]
    ELSE w

\* the catch that empties the tracked set
SubscribeCatchClearsAll(w, task) ==
    SubscribeEnds([w EXCEPT !.activeCDPSessions = {}], task)

\* the catch of subscribeToSession (lines 229-233)
SubscribeCatch(w, task) ==
    SubscribeEnds([w EXCEPT !.activeCDPSessions = @ \ {task.session}], task)

\* lines 178-227 with the resume sent before Network.enable has settled
SubscribeBeginsResumesFirst(w, session, caller) ==
    [w EXCEPT !.activeCDPSessions = @ \cup {session},
              !.listening = @ \cup ({session} \cap w.attached),
              !.resumeSent = @ \cup ({session} \cap w.attached),
              !.inFlight = @ \cup {Step("subscribe", session, "Network.enable", caller)}]

\* subscribeToSession lines 143-165: track, handle attachments, send
\* Network.enable; a command on a detached session is rejected
SubscribeBegins(w, session, caller) ==
    [w EXCEPT !.activeCDPSessions = @ \cup {session},
              !.listening = @ \cup ({session} \cap w.attached),
              !.inFlight = @ \cup {Step("subscribe", session, "Network.enable", caller)}]

\* subscribeToSession from the settling of the command task.at on
SubscribeResumes(w, task, ok) ==
    LET s == task.session
        w1 == [w EXCEPT !.inFlight = @ \ {task}]
    IN  CASE task.at = "Network.enable" ->
                IF ~ok THEN SubscribeCatch(w1, task)
                ELSE [w1 EXCEPT !.networkEnabled = @ \cup {s},
                                !.inFlight = @ \cup {[task EXCEPT !.at = "Runtime.enable"]}]
          [] task.at = "Runtime.enable" ->          \* lines 169-227
                IF s \notin w.attached THEN SubscribeCatch(w1, task)
                ELSE [w1 EXCEPT !.frameHandlers = @ \cup {s},
                                !.resumeSent = @ \cup {s},
                                !.observed.runtimeRejected = @ \cup (IF ok THEN {} ELSE {s}),
                                !.inFlight = @ \cup
                                    {[task EXCEPT !.at = "Runtime.runIfWaitingForDebugger"]}]
          [] OTHER ->
                IF ~ok THEN SubscribeCatch(w1, task)
                ELSE SubscribeEnds([w1 EXCEPT !.waitingForDebugger = @ \ {s}], task)

\* startMonitoring lines 25-40 and the setup's lines 96-115: the session
\* record, the client session, Target.setAutoAttach sent
SetupBegins(w) ==
    IF w.nmChromePage = 0 \/ w.isMonitoringNotifications THEN w
    ELSE LET w1 == createNotificationSession(w)
             w2 == [w1 EXCEPT !.currentNotificationSession = Len(w1.dbSessions)]
             client == Len(w.sessions) + 1
         IN  IF w.nmChromePage \notin w.pages
             THEN startMonitoringEnds(w2)           \* createCDPSession throws; caught
             ELSE [w2 EXCEPT !.sessions = Append(@, [page |-> w.nmChromePage, parent |-> 0]),
                             !.attached = @ \cup {client},
                             !.inFlight = @ \cup {Step("setup", client,
                                                       "Target.setAutoAttach", "startMonitoring")}]

\* Chrome attaches a worker under parent, paused at start when auto-attach
\* attached it; the parent's 'sessionattached' handler, if registered,
\* subscribes it
Attach(w, parent, paused) ==
    LET child == Len(w.sessions) + 1
        w1 == [w EXCEPT !.sessions = Append(@, [page |-> w.sessions[parent].page,
                                                parent |-> parent]),
                        !.attached = @ \cup {child},
                        !.waitingForDebugger = @ \cup (IF paused THEN {child} ELSE {})]
    IN  IF parent \in w.listening THEN SubscribeBegins(w1, child, "sessionattached")
        ELSE w1

\* lines 244-261: the loop over the discovered targets goes on; found
\* says that a further one of them is a Teams web worker
ExistingTargets(w, task, found) ==
    IF found
    THEN [w EXCEPT !.inFlight = @ \cup {[task EXCEPT !.at = "Target.attachToTarget"]}]
    ELSE SetupEnds(w, task.session)

\* the setup from the settling of Target.setAutoAttach (line 105),
\* Target.setDiscoverTargets (line 118), Target.getTargets (line 241) or
\* Target.attachToTarget (line 250) on
SetupResumes(w, task, ok, found) ==
    LET w1 == [w EXCEPT !.inFlight = @ \ {task}]
    IN  CASE task.at = "Target.setAutoAttach" ->
                IF ~ok THEN startMonitoringEnds(w1)         \* caught at line 271
                ELSE [w1 EXCEPT !.autoAttach = @ \cup {task.session},
                                !.inFlight = @ \cup
                                    {[task EXCEPT !.at = "Target.setDiscoverTargets"]}]
          [] task.at = "Target.setDiscoverTargets" ->
                IF ~ok THEN startMonitoringEnds(w1)
                ELSE SubscribeBegins(w1, task.session, "setup")
          [] task.at = "Target.getTargets" ->
                IF ~ok THEN SetupEnds(w1, task.session)     \* caught at line 259
                ELSE ExistingTargets(w1, task, found)
          [] OTHER ->
                ExistingTargets(IF ok THEN Attach(w1, task.session, FALSE) ELSE w1,
                                task, found)

\* stopChrome lines 131-137: the browser
StopChromeBrowser(w) ==
    IF w.chromeBrowser = 0
    THEN [w EXCEPT !.observed.stopReturned = TRUE]
    ELSE [Mark(w, "browserClose")
            EXCEPT !.inFlight = @ \cup {Step("stopChrome", 0, "browserClose", "stopChrome")}]

\* stopChrome lines 124-129, once stopMonitoring has returned
StopChromeAfterMonitoring(w) ==
    LET w1 == Mark(stopKeepAlive(Mark(Mark(w, "stopMonitoring_done"), "stopKeepAlive")),
                   "stopKeepAlive_done")
    IN  IF w1.chromePage /= 0 /\ w1.chromePage \in w1.pages
        THEN [Mark(w1, "pageClose")
                EXCEPT !.inFlight = @ \cup {Step("stopChrome", 0, "pageClose", "stopChrome")}]
        ELSE StopChromeBrowser(w1)

\* stopMonitoring has returned to the call that awaited it
StopMonitoringReturns(w, caller) ==
    IF caller = "cleanup" THEN w ELSE StopChromeAfterMonitoring(w)

\* stopMonitoring returns after its loop has run
StopMonitoringDone(w, caller) ==
    StopMonitoringReturns(
        [w EXCEPT !.observed.monitoringStopped = TRUE,
                  !.observed.leftBehind =
                      {s \in w.activeCDPSessions \cup (w.attached \cap w.listening) :
                          s > w.observed.knownAtStop}],
        caller)

\* stopMonitoring lines 76-88
StopMonitoringSession(w, caller) ==
    IF w.currentNotificationSession = NoSession
    THEN StopMonitoringDone([w EXCEPT !.isMonitoringNotifications = FALSE], caller)
    ELSE [w EXCEPT !.observed.endCalled = @ \cup {w.currentNotificationSession},
                   !.inFlight = @ \cup {Step("stopMonitoring", 0,
                                             "endNotificationSession", caller)}]

\* stopMonitoring lines 64-74
StopMonitoringClient(w, caller) ==
    LET w1 == [w EXCEPT !.activeCDPSessions = {}]
        client == IF w.nmChromePage = 0 THEN 0 ELSE w.cdpClient[w.nmChromePage]
    IN  IF client = 0 THEN StopMonitoringSession(w1, caller)
        ELSE [w1 EXCEPT !.observed.detachInvoked = @ \cup {client},
                        !.inFlight = @ \cup {Step("stopMonitoring", client,
                                                  "clientDetach", caller)}]

\* lines 57-63: the iterator of the Set moves on from last; it sees the
\* sessions added since and skips the ones deleted since
DetachLoop(w, caller, last) ==
    LET rest == {s \in w.activeCDPSessions : s > last}
        session == CHOOSE s \in rest : \A r \in rest : s <= r
    IN  IF rest = {} THEN StopMonitoringClient(w, caller)
        ELSE [w EXCEPT !.observed.detachInvoked = @ \cup {session},
                       !.inFlight = @ \cup {Step("stopMonitoring", session, "detach", caller)}]

\* stopMonitoring lines 51-57
StopMonitoringBegins(w, caller) ==
    IF ~w.isMonitoringNotifications THEN StopMonitoringReturns(w, caller)
    ELSE DetachLoop([w EXCEPT !.tornDown = TRUE,
                              !.observed.trackedAtStop = w.activeCDPSessions,
                              !.observed.knownAtStop = Len(w.sessions)],
                    caller, 0)

\* stopMonitoring from the settling of task.at on
StopMonitoringResumes(w, task, ok) ==
    LET w1 == [w EXCEPT !.inFlight = @ \ {task}]
    IN  CASE task.at = "detach" ->
                DetachLoop(IF ok THEN Detached(w1, {task.session})
                           ELSE [w1 EXCEPT !.detachThrown = @ + 1],
                           task.caller, task.session)
          [] task.at = "clientDetach" ->
                StopMonitoringSession(
                    IF ok THEN [Detached(w1, {task.session})
                                  EXCEPT !.cdpClient[w.nmChromePage] = 0]
                    ELSE w1,
                    task.caller)
          [] OTHER ->
                StopMonitoringDone(
                    IF ok THEN [endNotificationSession(w1, w.currentNotificationSession)
                                  EXCEPT !.currentNotificationSession = NoSession,
                                         !.isMonitoringNotifications = FALSE]
                    ELSE w1,                        \* caught at line 86
                    task.caller)

\* stopChrome with stopKeepAlive moved before stopMonitoring
StopChromeCalledKeepAliveFirst(w) ==
    StopMonitoringBegins(
        Mark(Mark(stopKeepAlive(Mark(w, "stopKeepAlive")), "stopKeepAlive_done"),
             "stopMonitoring"),
        "stopChrome")

\* stopChrome lines 116-121
StopChromeCalled(w) == StopMonitoringBegins(Mark(w, "stopMonitoring"), "stopChrome")

\* stopChrome from the settling of chromePage.close() or
\* chromeBrowser.close() on; a rejection leaves for the catch (line 139)
StopChromeSettles(w, task, ok) ==
    LET w1 == [w EXCEPT !.inFlight = @ \ {task}]
    IN  IF ~ok THEN [w1 EXCEPT !.observed.stopReturned = TRUE, !.success = FALSE]
        ELSE IF task.at = "pageClose"
        THEN StopChromeBrowser(
                 Mark([ClosePage(w1, w.chromePage) EXCEPT !.chromePage = 0],
                      "pageClose_done"))
        ELSE [Mark([CloseBrowser(w1, w.chromeBrowser) EXCEPT !.chromeBrowser = 0],
                   "browserClose_done")
                EXCEPT !.observed.stopReturned = TRUE]


\* the 'start-chrome-teams' handler has startChrome's success on a
\* signed-out profile and is about to call startMonitoring (line 41)
InitSessions ==
    /\ Holds(Polling, "startChrome")
    /\ failures = 0
    /\ NoFrame
    /\ NoProbe

\* env of a step whose awaited command was rejected although its session
\* was there
Outcome(ok, possible) ==
    IF ~ok /\ possible THEN [Calm EXCEPT !.fail = "rejected"] ELSE Calm

Stopping == \E t \in inFlight : t.op \in {"stopMonitoring", "stopChrome"}

Starting == \E t \in inFlight : t.caller \in {"startMonitoring", "setup"}

\* the child sessions Chrome has attached so far
Workers == Cardinality({s \in 1..Len(sessions) : sessions[s].parent /= 0})

StartMonitoringCalled ==
    /\ dbSessions = <<>>
    /\ ~Starting
    /\ Commit(SetupBegins(World), "startMonitoring", Calm)
    /\ UNCHANGED trayIsTeamsActive

SetupSettles ==
    \E task \in inFlight, ok, found \in BOOLEAN :
        /\ task.op = "setup"
        /\ ok => task.session \in attached
        /\ (~ok /\ task.session \in attached) => failures < MaxFailures
        /\ found => /\ ok \/ task.at = "Target.attachToTarget"
                    /\ task.at \in {"Target.getTargets", "Target.attachToTarget"}
                    /\ Workers + Cardinality({t \in inFlight : t.at = "Target.attachToTarget"})
                          < MaxWorkers
        /\ Commit(SetupResumes(World, task, ok, found), "startMonitoring",
                  Outcome(ok, task.session \in attached))
        /\ UNCHANGED trayIsTeamsActive

SubscribeSettles ==
    \E task \in inFlight, ok \in BOOLEAN :
        /\ task.op = "subscribe"
        /\ ok => task.session \in attached
        /\ (~ok /\ task.session \in attached) => failures < MaxFailures
        /\ Commit(SubscribeResumes(World, task, ok), "subscribe",
                  Outcome(ok, task.session \in attached))
        /\ UNCHANGED trayIsTeamsActive

WorkerAttaches ==
    \E parent \in attached :
        /\ \E root \in autoAttach \cap attached :
              sessions[root].page = sessions[parent].page
        /\ Workers + Cardinality({t \in inFlight : t.at = "Target.attachToTarget"})
              < MaxWorkers
        /\ Commit(Attach(World, parent, TRUE), "sessionattached", Calm)
        /\ UNCHANGED trayIsTeamsActive

StopChromeCalls ==
    /\ ~observed.stopReturned
    /\ ~Stopping
    /\ Commit(StopChromeCalled([World EXCEPT !.observed.stoppedDuringStart = @ \/ Starting]),
              "stopChrome", Calm)
    /\ UNCHANGED trayIsTeamsActive

NotificationCleanupCalls ==
    /\ ~observed.stopReturned
    /\ ~Stopping
    /\ isMonitoringNotifications
    /\ Commit(StopMonitoringBegins(World, "cleanup"), "stopMonitoring", Calm)
    /\ UNCHANGED trayIsTeamsActive

StopMonitoringSettles ==
    \E task \in inFlight, ok \in BOOLEAN :
        /\ task.op = "stopMonitoring"
        /\ (ok /\ task.at /= "endNotificationSession") => task.session \in attached
        /\ (~ok /\ (task.at = "endNotificationSession" \/ task.session \in attached))
              => failures < MaxFailures
        /\ Commit(StopMonitoringResumes(World, task, ok), "stopMonitoring",
                  Outcome(ok, task.at = "endNotificationSession"
                              \/ task.session \in attached))
        /\ UNCHANGED trayIsTeamsActive

StopChromeStepSettles ==
    \E task \in inFlight, ok \in BOOLEAN :
        /\ task.op = "stopChrome"
        /\ ~ok => failures < MaxFailures
        /\ Commit(StopChromeSettles(World, task, ok), "stopChrome", Outcome(ok, TRUE))
        /\ UNCHANGED trayIsTeamsActive

NextSessions ==
    \/ StartMonitoringCalled
    \/ SetupSettles
    \/ SubscribeSettles
    \/ WorkerAttaches
    \/ StopChromeCalls
    \/ NotificationCleanupCalls
    \/ StopMonitoringSettles
    \/ StopChromeStepSettles

SpecSessions == InitSessions /\ [][NextSessions]_vars


(***************************************************************************)
(* Lifecycle properties                                                    *)
(***************************************************************************)
managers ==
    <<chromeBrowser, chromePage, chromeKeepAliveInterval, powerSaveBlockerId,
      isTeamsActive, nmChromePage, currentNotificationSession,
      isMonitoringNotifications, activeCDPSessions, cdpClient>>

\* C1: at most one automated browser and one page exist at any time, and no
\* launched browser is left running without the manager holding its handle.
OneBrowserOnePage ==
    /\ Cardinality(browsers) <= 1
    /\ Cardinality(pages) <= 1
    /\ browsers \subseteq {chromeBrowser}

\* C2: a stop entry point called straight after the same stop entry point
\* does not throw and leaves the managers' state unchanged; after two
\* stopChrome calls that state holds no browser, no page, no timer, no
\* inhibitor, no tracked session and no current session.
StopTwiceChangesNothing ==
    [][(lastCall \in {"stopChrome", "stopMonitoring"} /\ lastCall' = lastCall)
          => /\ ~lastThrew'
             /\ UNCHANGED managers
             /\ lastCall = "stopChrome" =>
                   /\ chromeBrowser' = 0
                   /\ chromePage' = 0
                   /\ chromeKeepAliveInterval' = 0
                   /\ powerSaveBlockerId' = NoBlocker
                   /\ activeCDPSessions' = {}
                   /\ currentNotificationSession' = NoSession]_vars

Present(v) == v.k /= "undefined"

NonEmpty(v) == Present(v) /\ v /= Str(<<>>)

StartsWithPing(text) == Len(text) >= 2 /\ text[1] = "5" /\ text[2] = ":"

HasBrace(text) == \E i \in 1..Len(text) : text[i] = "{"

EnvelopeOk(d) ==
    /\ d.core = "envelope"
    /\ d.url.k = "string"
    /\ \E i \in 1..Len(d.url.s) : d.url.s[i] = "v4/f"
    /\ d.url.s[Len(d.url.s)] = "/messaging"
    /\ d.method = Str(<<"POST">>)
    /\ d.body = "json"

BodyOk(d) ==
    /\ d.top = "object"
    /\ d.type = Str(<<"EventMessage">>)
    /\ d.resourceType = Str(<<"NewMessage">>)
    /\ d.resource = "object"
    /\ NonEmpty(d.content)
    /\ NonEmpty(d.messageType)

Denylisted(d) ==
    /\ d.messageType.k = "string"
    /\ \E i \in 1..Len(d.messageType.s) : d.messageType.s[i] \in dontContains

PassesAllFilters(d) ==
    /\ ~StartsWithPing(d.prefix)
    /\ EnvelopeOk(d)
    /\ BodyOk(d)
    /\ ~Denylisted(d)

Processed == framePhase = "processed"

Emitted == frameOut.records /= <<>> \/ frameOut.persisted /= <<>> \/ frameOut.ui /= <<>>

\* the record is in storage once, under the current session, and was not before
StoredOnce(r) ==
    /\ \A m \in frameOut.dbBefore.messages : m.id /= r.id
    /\ dbMessages = frameOut.dbBefore.messages
                        \cup {[id |-> r.id, sessionId |-> currentNotificationSession]}
    /\ dbSessions[currentNotificationSession].messageCount =
          frameOut.dbBefore.sessions[currentNotificationSession].messageCount + 1

NothingStored ==
    /\ dbMessages = frameOut.dbBefore.messages
    /\ dbSessions = frameOut.dbBefore.sessions

\* C4: processing a frame ends with at most one record emitted, stored and
\* pushed, and with no exception leaving processWebSocketMessage.
FrameProcessingIsTotal ==
    Processed =>
        /\ ~frameOut.threw
        /\ Len(frameOut.records) <= 1
        /\ Len(frameOut.persisted) <= 1
        /\ Len(frameOut.ui) <= 1

\* a frame whose record was built and whose storage write threw
PersistenceThrewInside ==
    /\ Processed
    /\ frameDesc.ioError
    /\ Len(frameOut.persisted) = 1
    /\ frameOut.ui = <<>>
    /\ ~frameOut.threw

\* C5: a record, a persistence call or a UI event happens only for a frame
\* whose text after the first '{' is an envelope with a url containing
\* 'v4/f' and ending '/messaging', method POST and a body that parses, the
\* body having type EventMessage, resourceType NewMessage and non-empty
\* resource.content and resource.messageType.
EmittedOnlyForNotificationEnvelopes ==
    (Processed /\ Emitted) => (EnvelopeOk(frameDesc) /\ BodyOk(frameDesc))

\* a notification envelope that was stored and pushed
NotificationEnvelopeEmitted ==
    /\ Processed
    /\ EnvelopeOk(frameDesc)
    /\ BodyOk(frameDesc)
    /\ Len(frameOut.ui) = 1

\* C6: a frame whose resource.messageType contains Event, Call,
\* ThreadActivity or MemberConsumptionHorizonUpdate yields no record.
DenylistedTypeYieldsNoRecord ==
    (Processed /\ Denylisted(frameDesc)) => ~Emitted

\* a call recording: denylisted only by a substring, every other filter passing
DenylistedBySubstringRejected ==
    /\ Processed
    /\ frameDesc.messageType = Str(<<"RichText", "/", "Media_", "Call", "Recording">>)
    /\ ~StartsWithPing(payloadData)
    /\ EnvelopeOk(frameDesc)
    /\ BodyOk(frameDesc)
    /\ currentNotificationSession /= NoSession
    /\ ~Emitted

\* C7: a frame beginning '5:' yields no record, and JSON.parse is not called
\* for it.
PingFrameNeverParsed ==
    (Processed /\ StartsWithPing(payloadData)) =>
        (~Emitted /\ frameOut.parseCalls = 0)

\* '5:' in front of a notification envelope that would otherwise be accepted
PingBeforeNotificationEnvelope ==
    /\ Processed
    /\ StartsWithPing(payloadData)
    /\ EnvelopeOk(frameDesc)
    /\ BodyOk(frameDesc)
    /\ ~Denylisted(frameDesc)
    /\ currentNotificationSession /= NoSession
    /\ ~Emitted

\* C8: a frame without a '{' yields no record, no persistence call and no UI
\* event; it is rejected before JSON.parse is called.
NoBraceNoRecord ==
    (Processed /\ ~HasBrace(payloadData)) =>
        (~Emitted /\ NothingStored /\ frameOut.parseCalls = 0)

\* a non-empty frame without a brace
BracelessFrameRejected ==
    /\ Processed
    /\ payloadData /= <<>>
    /\ ~StartsWithPing(payloadData)
    /\ ~HasBrace(payloadData)
    /\ ~Emitted


\* the fields C9 names, for record r built from the frame described by d;
\* idGiven says when resource.id counts as given
RecordFields(r, d, idGiven) ==
    /\ r.sessionId = currentNotificationSession
    /\ r.isRead = FALSE
    /\ r.content = Str(extractTextFromHtml(d.content.s))
    /\ IF idGiven
       THEN r.id = d.id /\ frameOut.gen = frameOut.genBefore
       ELSE r.id = Str(generateMessageId(frameOut.gen))
            /\ frameOut.gen = frameOut.genBefore + 1

Accepted ==
    /\ Processed
    /\ PassesAllFilters(frameDesc)
    /\ currentNotificationSession /= NoSession

\* C9 as stated: a frame passing all filters while a session is current
\* yields exactly one record, stored once and pushed once, with sessionId
\* the current session, isRead false, content the stripped resource.content,
\* from the imdisplayname when present, id the resource.id when present and
\* a generated token otherwise.
AcceptedFrameStoredAndPushedOnce ==
    Accepted =>
        /\ Len(frameOut.records) = 1
        /\ Len(frameOut.persisted) = 1
        /\ Len(frameOut.ui) = 1
        /\ StoredOnce(frameOut.records[1])
        /\ RecordFields(frameOut.records[1], frameDesc, Present(frameDesc.id))
        /\ Present(frameDesc.imdisplayname) =>
              frameOut.records[1].from = frameDesc.imdisplayname

\* C9 amended: a frame passing all filters with string content and
\* messageType while a session is current has exactly one record built, with
\* sessionId the current session, isRead false, content the stripped
\* resource.content, from the imdisplayname when non-empty, id the
\* resource.id when non-empty and a generated token otherwise; one append is
\* attempted with it; it is stored once and pushed once when the append
\* succeeds, and neither stored nor pushed when the append throws.
AcceptedFrameBuiltOnceStoredIfAppendSucceeds ==
    (/\ Accepted
     /\ frameDesc.content.k = "string"
     /\ frameDesc.messageType.k = "string") =>
        /\ Len(frameOut.records) = 1
        /\ frameOut.persisted = frameOut.records
        /\ RecordFields(frameOut.records[1], frameDesc, NonEmpty(frameDesc.id))
        /\ NonEmpty(frameDesc.imdisplayname) =>
              frameOut.records[1].from = frameDesc.imdisplayname
        /\ IF /\ ~frameDesc.ioError
              /\ \A m \in frameOut.dbBefore.messages : m.id /= frameOut.records[1].id
           THEN StoredOnce(frameOut.records[1]) /\ frameOut.ui = frameOut.records
           ELSE NothingStored /\ frameOut.ui = <<>>

\* an accepted frame without resource.id, stored and pushed under a
\* generated id, its content stripped of the markup
AcceptedWithGeneratedId ==
    /\ Accepted
    /\ ~Present(frameDesc.id)
    /\ Len(frameOut.ui) = 1
    /\ frameOut.records[1].id = Str(generateMessageId(1))
    /\ frameOut.records[1].content = Str(<<"Hi">>)
    /\ StoredOnce(frameOut.records[1])

\* C10 as stated: a record built from a resource without imdisplayname, to
\* or threadtopic has the empty string as from, conversationId or
\* conversationName.
MissingFieldsBecomeEmpty ==
    (Processed /\ Len(frameOut.records) = 1) =>
        /\ ~Present(frameDesc.imdisplayname) => frameOut.records[1].from = Str(<<>>)
        /\ ~Present(frameDesc.to) => frameOut.records[1].conversationId = Str(<<>>)
        /\ ~Present(frameDesc.threadtopic) =>
              frameOut.records[1].conversationName = Str(<<>>)

\* C10 amended: without imdisplayname the record's from is 'Unknown';
\* without to or threadtopic its conversationId or conversationName is the
\* empty string.
MissingSenderBecomesUnknown ==
    (Processed /\ Len(frameOut.records) = 1) =>
        /\ ~Present(frameDesc.imdisplayname) =>
              frameOut.records[1].from = Str(<<"Unknown">>)
        /\ ~Present(frameDesc.to) => frameOut.records[1].conversationId = Str(<<>>)
        /\ ~Present(frameDesc.threadtopic) =>
              frameOut.records[1].conversationName = Str(<<>>)

\* a record pushed for a resource without a sender display name
RecordWithoutSender ==
    /\ Processed
    /\ Len(frameOut.ui) = 1
    /\ ~Present(frameDesc.imdisplayname)
    /\ frameOut.records[1].from = Str(<<"Unknown">>)
    /\ frameOut.records[1].conversationId = Str(<<"c1">>)

(***************************************************************************)
(* Start of monitoring                                                     *)
(***************************************************************************)
\* C20: a notification session record is created (monitoring begins) only
\* in a state where the profile holds a token, so that the authentication
\* check before it can have returned one; this for every entry point.
MonitoringBeginsOnlyAfterValidToken ==
    [][Len(dbSessions') > Len(dbSessions) => signedIn']_vars

(***************************************************************************)
(* Keep-alive                                                              *)
(***************************************************************************)
\* C17: across every sequence of handlers that start and stop keep-alive,
\* at most one keep-alive timer is scheduled and at most one sleep
\* inhibitor is held, each the one the manager's field names (a start while
\* keep-alive is active adds neither), and after a stopChrome no timer is
\* scheduled and no inhibitor is held.
AtMostOneKeepAliveAndInhibitor ==
    /\ Cardinality(intervals) <= 1
    /\ Cardinality(blockers) <= 1
    /\ intervals \subseteq {chromeKeepAliveInterval}
    /\ blockers \subseteq {powerSaveBlockerId}
    /\ lastCall = "stopChrome" => intervals = {} /\ blockers = {}

\* a second startChrome that found the page authenticated, and so called
\* startKeepAlive, in a run where keep-alive was active before it: no
\* operation failed, no poll timer is left (the first launch was
\* authenticated, or a poll started keep-alive) and only one inhibitor was
\* ever acquired (no stop released it in between)
StartKeepAliveWhileActive ==
    /\ lastCall = "startChrome"
    /\ ~lastThrew
    /\ failures = 0
    /\ chromeBrowser = 2
    /\ chromePage = 2
    /\ signedIn
    /\ authCheckIntervals = {}
    /\ blockerSeq = 1
    /\ blockers = {0}
    /\ Cardinality(intervals) = 1

(***************************************************************************)
(* Redelivered frames                                                      *)
(***************************************************************************)
\* what the two processings of one payload have in common when both emit
SameRecord(a, b) ==
    /\ Len(a.ui) = 1
    /\ Len(b.ui) = 1
    /\ IF NonEmpty(frameDesc.id)        \* the id is the payload's own
       THEN a.ui[1] = b.ui[1]
       ELSE [a.ui[1] EXCEPT !.id = Null] = [b.ui[1] EXCEPT !.id = Null]

\* C11: the same raw payload processed twice under the same current session
\* has the same outcome both times: no record emitted either time, or a
\* record emitted each time, the two equal field by field apart from a
\* generated id.
SamePayloadSameOutcome ==
    [][(framePhase = "processed" /\ framePhase' = "replayed") =>
          \/ frameOut.ui = <<>> /\ frameOut'.ui = <<>>
          \/ SameRecord(frameOut, frameOut')]_vars

(***************************************************************************)
(* Token scan properties                                                   *)
(***************************************************************************)
Returned == tokenPhase = "returned"

\* the description of an entry whose value holds a token the scan accepts
WellFormed(d) ==
    /\ d.shape = "object"
    /\ d.secret \in {"own", "number"}
    /\ d.credentialType \in
          {Str(<<"AccessToken">>), Str(<<"accesstoken">>), Str(<<"ACCESSTOKEN">>)}

Valid(d) == d.parts = {1, 2, 3} /\ WellFormed(d)

\* C12: when no localStorage key contains all three required substrings,
\* getAccessToken returns null, whatever the values under the other keys.
NoFullKeyReturnsNull ==
    (Returned /\ \A i \in 1..Len(storageDesc) : storageDesc[i].parts /= {1, 2, 3})
        => tokenOut.accessToken = Null

\* an evaluated scan of two entries with well-formed token values, one
\* under a key with two of the substrings, one under a key with one
SubsetKeysWithTokens ==
    /\ Returned
    /\ PageState = "open"
    /\ ~tokenOut.rejects
    /\ Len(storageDesc) = 2
    /\ Cardinality(storageDesc[1].parts) = 2
    /\ Cardinality(storageDesc[2].parts) = 1
    /\ WellFormed(storageDesc[1])
    /\ WellFormed(storageDesc[2])
    /\ tokenOut.accessToken = Null

\* C13: getAccessToken never throws; it returns null for an absent page and
\* for a failing evaluation, and otherwise the secret of the first entry
\* whose key matches and whose value parses to a truthy secret with
\* credentialType 'accesstoken' in any case (null when there is none), the
\* entries before it being skipped.
ScanSkipsBadEntries ==
    Returned =>
        /\ ~tokenOut.threw
        /\ IF PageState = "open" /\ ~tokenOut.rejects
              /\ \E i \in 1..Len(storageDesc) : Valid(storageDesc[i])
           THEN LET first == CHOOSE i \in 1..Len(storageDesc) :
                                 /\ Valid(storageDesc[i])
                                 /\ \A j \in 1..(i - 1) : ~Valid(storageDesc[j])
                IN  tokenOut.accessToken = SecretOf(storageDesc[first], first)
           ELSE tokenOut.accessToken = Null

\* a scan that met a matching key with unparsable JSON first and returned
\* the secret of the valid entry after it
BadEntryThenValid ==
    /\ Returned
    /\ Len(storageDesc) = 2
    /\ storageDesc[1].parts = {1, 2, 3}
    /\ storageDesc[1].shape = "garbage"
    /\ Valid(storageDesc[2])
    /\ tokenOut.warnLogs = 1
    /\ tokenOut.accessToken = Str(<<"token", "2">>)

(***************************************************************************)
(* Properties of the calls in steps                                        *)
(***************************************************************************)
\* C14: once a poll has found the token, the poll timer is cancelled, no
\* poll callback begins a check or sends a status event after it, and
\* keep-alive and monitoring have each been started exactly once (one
\* inhibitor ever acquired, one session record ever created).
PollStopsOnFirstSuccess ==
    observed.succeeded =>
        /\ authCheckIntervals = {}
        /\ ~observed.afterSuccess
        /\ blockerSeq = 1
        /\ Len(dbSessions) = 1

\* C15: while no poll finds a token, the timer fires maxChecks times and no
\* more, it is cancelled only with the timeout dialog, and the dialog is
\* shown at most once.
TimeoutAfterMaxChecksOnce ==
    /\ \A timer \in authCheckIntervals : timer.checkCount <= maxChecks
    /\ \A task \in inFlight : task.checkCount <= maxChecks
    /\ observed.timeouts <= 1
    /\ authCheckIntervals = {} => observed.timeouts = 1

\* C16: every poll that has ended sent a 'teams-auth-status' event, and the
\* event carries the result of the poll.
EveryPollReportsItsResult ==
    /\ ~observed.unreported
    /\ observed.lastStatus.authenticated = observed.lastResult.isAuthenticated
    /\ observed.lastStatus.accessToken = observed.lastResult.accessToken

\* C18: once stopChrome has returned (and startChrome has not been called
\* again) no keep-alive timer is scheduled and no inhibitor is held.
KeepAliveOffAfterStopChrome ==
    observed.stopReturned =>
        /\ chromeKeepAliveInterval = 0
        /\ intervals = {}
        /\ powerSaveBlockerId = NoBlocker
        /\ blockers = {}

\* C19: at most one notification session is created and not ended, and
\* once stopChrome has returned none is.
AtMostOneOpenSession ==
    LET open == {i \in DOMAIN dbSessions : dbSessions[i].isActive}
    IN  /\ Cardinality(open) <= 1
        /\ (observed.stopReturned /\ inFlight = {}) => open = {}

(***************************************************************************)
(* Properties of a send                                                    *)
(***************************************************************************)
\* C21: the access token is never written to a log or console: no entry
\* that a 'send-teams-message' call wrote (the probe for the token, the
\* handler, sendMessage) contains the token the call handled.
TokenNeverLogged ==
    \A l \in sendOut.logs :
        sendOut.accessToken.k = "string" => ~Includes(l.text, sendOut.accessToken.s)

(***************************************************************************)
(* Properties of the sessions in steps                                     *)
(***************************************************************************)
\* the marks of observed.order appear in the order rank gives them
InOrder(rank) ==
    \A i, j \in DOMAIN observed.order :
        i < j => rank[observed.order[i]] < rank[observed.order[j]]

\* C22 as stated: stopChrome stops the keep-alive, then stops monitoring
\* and detaches the sessions, then closes the page, then closes the browser,
\* and begins no step before the one before it has completed.
StopsKeepAliveThenMonitoring ==
    InOrder([stopKeepAlive |-> 1, stopKeepAlive_done |-> 2,
             stopMonitoring |-> 3, stopMonitoring_done |-> 4,
             pageClose |-> 5, pageClose_done |-> 6,
             browserClose |-> 7, browserClose_done |-> 8])

\* C22 as amended: stopChrome stops monitoring first, then the keep-alive,
\* then closes the page, then closes the browser; each step begins only
\* after the one before it has returned or settled.
StopsMonitoringThenKeepAlive ==
    InOrder([stopMonitoring |-> 1, stopMonitoring_done |-> 2,
             stopKeepAlive |-> 3, stopKeepAlive_done |-> 4,
             pageClose |-> 5, pageClose_done |-> 6,
             browserClose |-> 7, browserClose_done |-> 8])

\* a stopChrome that went through every step, detaching tracked sessions
FullTeardown ==
    /\ observed.stopReturned
    /\ Len(observed.order) = 8
    /\ \E s \in 1..Len(sessions) : sessions[s].parent /= 0 /\ s \notin attached
    /\ browsers = {}

\* C23: stopping is safe at any point of startup: when stopChrome was
\* called while startMonitoring was still in progress, then once both calls
\* have finished, with no command rejected, no browser runs, no CDP session
\* is tracked or attached, no notification session is open and the
\* keep-alive is inactive.
StopDuringStartLeavesNothing ==
    (observed.stoppedDuringStart /\ observed.stopReturned /\ inFlight = {}
       /\ failures = 0)
    => /\ browsers = {}
       /\ activeCDPSessions = {}
       /\ attached = {}
       /\ currentNotificationSession = NoSession
       /\ \A i \in DOMAIN dbSessions : ~dbSessions[i].isActive
       /\ ~isMonitoringNotifications
       /\ intervals = {} /\ blockers = {} /\ ~isTeamsActive

\* C24: whenever stopChrome closes the browser, every tracked session has
\* been detached before: the browser is never closed while the tracked set
\* is non-empty.
BrowserClosedOnlyUntracked ==
    [][(browsers' /= browsers /\ lastCall' = "stopChrome") => activeCDPSessions = {}]_vars

\* C25: every child session attached once auto-attach is on is tracked,
\* subscribed to the network events and resumed: when the calls in progress
\* have all finished, with no command rejected, no attached child is still
\* paused, untracked or without its network subscription.
NoChildLeftPaused ==
    (inFlight = {} /\ failures = 0) =>
        \A s \in attached :
            sessions[s].parent /= 0 =>
                /\ s \in activeCDPSessions
                /\ s \in networkEnabled \cap frameHandlers
                /\ s \notin waitingForDebugger

\* C26: when the subscription of one child session fails (its
\* Network.enable or its resume is rejected), only that session leaves the
\* tracked set: the other sessions stay tracked and keep their handlers and
\* subscriptions, the other calls in progress go on, and nothing is thrown
\* to startMonitoring.
SubscribeFailureIsolated ==
    [][\A t \in inFlight \ inFlight' :
          ( /\ t.op = "subscribe"
            /\ lastCall' = "subscribe"
            /\ sessions[t.session].parent /= 0
            /\ \/ failures' > failures /\ t.at /= "Runtime.enable"
               \/ t.session \notin attached )
          => /\ activeCDPSessions' = activeCDPSessions \ {t.session}
             /\ listening' = listening
             /\ networkEnabled' = networkEnabled
             /\ frameHandlers' = frameHandlers
             /\ inFlight' = inFlight \ {t}
             /\ isMonitoringNotifications' = isMonitoringNotifications
             /\ ~lastThrew']_vars

\* a child's subscription has failed, the root is still tracked and
\* subscribed, and a child attached later is tracked, subscribed and resumed
LaterChildSubscribed ==
    \E s, c \in attached :
        /\ sessions[s].parent /= 0 /\ s < c
        /\ s \in listening \ activeCDPSessions
        /\ failures > 0
        /\ c \in activeCDPSessions \cap networkEnabled \cap frameHandlers
        /\ c \in resumeSent \ waitingForDebugger
        /\ \E root \in activeCDPSessions \cap networkEnabled :
              sessions[root].parent = 0
        /\ isMonitoringNotifications

\* C27: the resume command (Runtime.runIfWaitingForDebugger) is sent on a
\* session only once its Network.enable has succeeded and its frame
\* handlers are registered, and a rejected Runtime.enable prevents neither
\* the registration nor the resume.
ResumeAfterSubscription ==
    [][/\ \A s \in resumeSent' \ resumeSent :
             s \in networkEnabled /\ s \in frameHandlers'
       /\ \A t \in inFlight \ inFlight' :
             ( /\ t.op = "subscribe" /\ t.at = "Runtime.enable"
               /\ lastCall' = "subscribe"
               /\ failures' > failures )
             => t.session \in frameHandlers' \cap resumeSent']_vars

\* the resume has been sent on a paused child whose Runtime.enable was
\* rejected
ResumedWithoutRuntime ==
    \E t \in inFlight :
        /\ t.at = "Runtime.runIfWaitingForDebugger"
        /\ sessions[t.session].parent /= 0
        /\ t.session \in observed.runtimeRejected
        /\ t.session \in resumeSent \cap waitingForDebugger
        /\ t.session \in networkEnabled \cap frameHandlers

\* C28: teardown tolerates the callbacks that add or remove tracked
\* sessions while its detach loop is awaiting: once stopMonitoring has run
\* its loop and returned, detach has been invoked on every session that was
\* tracked when it began, and no session attached and subscribed since it
\* began is left tracked or attached.
TeardownToleratesCallbacks ==
    observed.monitoringStopped =>
        /\ observed.trackedAtStop \subseteq observed.detachInvoked
        /\ observed.leftBehind = {}

\* C29: a failing cleanup step of stopChrome or stopMonitoring (a session
\* detach, the end of the session record, the page close) is not thrown on
\* and does not keep the remaining steps from running: after a rejected
\* page close the browser close is still sent, after a rejected end of the
\* session record monitoring is still marked stopped, after a rejected
\* detach the teardown goes on.
CleanupStepFailureTolerated ==
    [][\A t \in inFlight \ inFlight' :
          (t.op \in {"stopMonitoring", "stopChrome"} /\ failures' > failures)
          => /\ ~lastThrew'
             /\ t.at = "pageClose" =>
                    \E u \in inFlight' : u.op = "stopChrome" /\ u.at = "browserClose"
             /\ t.at = "endNotificationSession" => ~isMonitoringNotifications'
             /\ t.at \in {"detach", "clientDetach"} =>
                    \E u \in inFlight' \ inFlight :
                        u.op \in {"stopMonitoring", "stopChrome"}]_vars

(***************************************************************************)
(* Properties of the keep-alive timer                                      *)
(***************************************************************************)
\* C30: a keep-alive tick that fails (its sign-in re-check or its activity
\* injection throws) changes nothing else: the timer stays scheduled, the
\* sleep inhibitor stays held, the active flag stays true and nothing is
\* thrown out of the callback.
FailingTickChangesNothing ==
    [][observed'.failedTicks /= observed.failedTicks
          => /\ intervals' = intervals
             /\ chromeKeepAliveInterval' = chromeKeepAliveInterval
             /\ blockers' = blockers
             /\ powerSaveBlockerId' = powerSaveBlockerId
             /\ isTeamsActive' = isTeamsActive
             /\ ~lastThrew']_vars

\* a tick has failed and a later tick of the same timer is running, with
\* the inhibitor held and the active flag true
TickAfterFailedTick ==
    \E t \in inFlight, f \in observed.failedTicks :
        /\ t.op \in {"keepAlive", "keepAliveActivity"}
        /\ t.fired > f
        /\ t.timer = chromeKeepAliveInterval
        /\ chromeKeepAliveInterval \in intervals
        /\ powerSaveBlockerId \in blockers
        /\ isTeamsActive

\* C31: a keep-alive tick whose re-check finds the sign-in lost reports the
\* unauthenticated status, dispatches no activity into the page and leaves
\* the keep-alive as it is (timer scheduled, inhibitor held, active flag);
\* the activity is dispatched only in a tick whose re-check found a token.
LostSignInKeepsKeepAlive ==
    [][/\ \A t \in inFlight \ inFlight' :
             ( /\ t.op = "keepAlive" /\ lastCall' = "keepAlive"
               /\ ~observed'.lastResult.isAuthenticated
               /\ ~observed'.lastResult.threw )
             => /\ observed'.lastStatus = [authenticated |-> FALSE, accessToken |-> Null]
                /\ inFlight' = inFlight \ {t}
                /\ observed'.failedTicks = observed.failedTicks
                /\ intervals' = intervals
                /\ chromeKeepAliveInterval' = chromeKeepAliveInterval
                /\ blockers' = blockers
                /\ powerSaveBlockerId' = powerSaveBlockerId
                /\ isTeamsActive' = isTeamsActive
       /\ \A u \in inFlight' \ inFlight :
             u.op = "keepAliveActivity"
             => /\ observed'.lastResult.isAuthenticated
                /\ observed'.lastStatus.authenticated
                /\ \E t \in inFlight \ inFlight' : t.op = "keepAlive" /\ t.fired = u.fired]_vars

\* a tick has found the sign-in lost and reported it; the timer is still
\* scheduled, the inhibitor held, and no activity is on its way
LossReportedKeepAliveOn ==
    /\ observed.ticks > 0
    /\ lastCall = "keepAlive"
    /\ storageDesc = <<>>
    /\ ~observed.lastResult.isAuthenticated /\ ~observed.lastResult.threw
    /\ observed.lastStatus = [authenticated |-> FALSE, accessToken |-> Null]
    /\ observed.failedTicks = {}
    /\ inFlight = {}
    /\ chromeKeepAliveInterval \in intervals
    /\ powerSaveBlockerId \in blockers
    /\ isTeamsActive

(***************************************************************************)
(* Properties of the two timers                                            *)
(***************************************************************************)
\* C32: the authentication poll timer is scheduled only before the sign-in
\* and the keep-alive timer only after it: never are a poll timer and the
\* keep-alive timer both scheduled, also after a stopChrome followed by a
\* new startChrome, and at most one poll timer exists at a time.
PollAndKeepAliveExclusive ==
    /\ ~(authCheckIntervals /= {} /\ intervals /= {})
    /\ Cardinality(authCheckIntervals) <= 1

(***************************************************************************)
(* Further properties of a frame                                           *)
(***************************************************************************)
\* C33: a frame whose payload is not valid JSON, or whose envelope body is
\* not valid JSON, is dropped (no record is built) without any error-level
\* log entry.
InvalidJsonDroppedSilently ==
    LET start == IndexOf(payloadData, "{")
        p1 == JSONParseText(Substring(payloadData, start))
        body == Get(p1.v, "body")
    IN  ( /\ framePhase /= "idle"
          /\ payloadData /= <<>>
          /\ start /= -1
          /\ \/ p1.threw
             \/ ~p1.threw /\ p1.v.k = "object" /\ Truthy(body) /\ JSONParse(body).threw )
        => /\ frameOut.records = <<>>
           /\ frameOut.errorLogs = 0

\* C34: for a frame storage.addNotificationMessage is called at most once,
\* never a second time, and the 'new-notification' event is sent only after
\* that call succeeded: the event carries the record whose row the call
\* stored, and a failed write is followed by no event.
WriteOnceEventAfterSuccess ==
    framePhase /= "idle" =>
        /\ Len(frameOut.persisted) <= 1
        /\ Len(frameOut.ui) <= 1
        /\ frameOut.ui /= <<>> =>
              /\ frameOut.ui = frameOut.persisted
              /\ \E m \in frameOut.db.messages \ frameOut.dbBefore.messages :
                    /\ m.id = frameOut.ui[1].id
                    /\ m.sessionId = frameOut.ui[1].sessionId
        /\ (frameOut.persisted /= <<>>
              /\ frameOut.db.messages = frameOut.dbBefore.messages)
           => frameOut.ui = <<>>

\* the frame delivered again was handed to the storage once more, the
\* write failed on the stored id, and no event followed
RedeliveredWriteFailedNoEvent ==
    /\ framePhase = "replayed"
    /\ ~frameDesc.ioError
    /\ Len(frameOut.persisted) = 1
    /\ \E m \in frameOut.dbBefore.messages : m.id = frameOut.persisted[1].id
    /\ frameOut.db = frameOut.dbBefore
    /\ frameOut.ui = <<>>

(***************************************************************************)
(* Further properties of the poll                                          *)
(***************************************************************************)
\* C35: when the poll's budget is used up without a sign-in, the timeout is
\* reported and the automation session stays open: the browser and page
\* handles, the running browser and its page are unchanged, and nothing is
\* stopped or torn down by the timeout.
TimeoutLeavesSessionOpen ==
    [][observed'.timeouts > observed.timeouts
          => /\ chromeBrowser' = chromeBrowser /\ chromePage' = chromePage
             /\ browsers' = browsers /\ pages' = pages
             /\ attached' = attached
             /\ chromeBrowser' \in browsers' /\ chromePage' \in pages'
             /\ isMonitoringNotifications' = isMonitoringNotifications
             /\ currentNotificationSession' = currentNotificationSession
             /\ intervals' = intervals /\ blockers' = blockers
             /\ isTeamsActive' = isTeamsActive
             /\ ~observed'.stopReturned
             /\ ~observed'.lastStatus.authenticated]_vars

\* the timeout has been reported, the poll timer is gone, and the browser
\* and its page are still open under their handles
TimedOutStillOpen ==
    /\ observed.timeouts >= 1
    /\ authCheckIntervals = {}
    /\ ~observed.succeeded
    /\ chromeBrowser \in browsers
    /\ chromePage \in pages

(***************************************************************************)
(* Further properties of the lifecycle                                     *)
(***************************************************************************)
\* C36: whenever startChrome returns success = false (the launch, the page
\* creation or the navigation failed, or the sign-in dialog was cancelled),
\* no browser launched by that call is left running and the browser and
\* page handles are null.
FailedStartLeavesNothingRunning ==
    Len(cdpClient) < MaxLaunches =>
        \A env \in Envs(StartFailures, TRUE) :
            ~startChrome(World, env).success
                => /\ startChrome(World, env).browsers \subseteq browsers
                   /\ startChrome(World, env).chromeBrowser = 0
                   /\ startChrome(World, env).chromePage = 0

(***************************************************************************)
(* Further properties of the frames                                        *)
(***************************************************************************)
\* C37: the messageType of every record built from a frame is the
\* resource.messageType value that passed the denylist filter, so no record
\* built, stored or pushed has a messageType containing Event, Call,
\* ThreadActivity or MemberConsumptionHorizonUpdate.
RecordTypeIsFilteredType ==
    Processed =>
        \A i \in 1..Len(frameOut.records) :
            /\ frameOut.records[i].messageType = frameDesc.messageType
            /\ frameOut.records[i].messageType.k = "string"
            /\ \A type \in dontContains :
                  ~Includes(frameOut.records[i].messageType.s, <<type>>)

(***************************************************************************)
(* Frames around the end of a session.  Monitoring runs with its session   *)
(* current and workers attach under it; notificationManager.cleanup() is   *)
(* called while the browser stays open, and the sessions still attached go *)
(* on delivering frames.                                                   *)
(***************************************************************************)
InitEnded ==
    /\ Holds(Monitoring, "startChrome")
    /\ failures = 0
    /\ NoFrame
    /\ NoProbe

NextEnded ==
    \/ SessionAttached
    \/ NotificationCleanup
    \/ FrameReceived
    \/ FrameRedelivered
    \/ FrameHandled

SpecEnded == InitEnded /\ [][NextEnded]_vars

\* C38: every record is appended to the session that is current when its
\* frame is processed, and no record is appended to a session after
\* endNotificationSession has been called for that session, whichever
\* attached session delivered the frame.
AppendOnlyToLiveCurrentSession ==
    [][\A m \in dbMessages' \ dbMessages :
          /\ m.sessionId = currentNotificationSession
          /\ m.sessionId \notin observed.endCalled]_vars

(***************************************************************************)
(* Further properties of keep-alive                                        *)
(***************************************************************************)
\* C39: between the operations of the teams manager, the sleep inhibitor is
\* held exactly when the keep-alive timer is scheduled, and that is exactly
\* when isActive() returns true.
InhibitorIffTimerIffActive ==
    /\ (blockers /= {}) <=> (intervals /= {})
    /\ (intervals /= {}) <=> isTeamsActive

\* keep-alive is active again after a stop released the first inhibitor: the
\* second inhibitor is held, one timer is scheduled, isActive() is true
KeepAliveActiveAgainAfterStop ==
    /\ lastCall = "startChrome"
    /\ blockerSeq = 2
    /\ blockers = {1}
    /\ Cardinality(intervals) = 1
    /\ isTeamsActive

(***************************************************************************)
(* storage.ts: addNotificationMessage on its own.  Two sessions have been  *)
(* created; the calls append messages under a few ids to either of them,   *)
(* some with an id already stored, some with the write failing.            *)
(***************************************************************************)
MaxMessageIds == 3      \* distinct message ids passed to addNotificationMessage

MessageIds == {<<"m", ToString(n)>> : n \in 1..MaxMessageIds}

InitStorage ==
    /\ Holds(createNotificationSession(createNotificationSession(Constructed(TRUE))),
             "constructor")
    /\ failures = 0
    /\ NoFrame
    /\ NoProbe

\* one call of storage.addNotificationMessage(sessionId, message)
AddNotificationMessageCalled ==
    \E sessionId \in DOMAIN dbSessions, id \in MessageIds, ioError \in BOOLEAN :
        LET db == [messages |-> dbMessages, sessions |-> dbSessions]
            message == [id |-> Str(id), sessionId |-> sessionId]
            out == addNotificationMessage(db, sessionId, message, ioError)
        IN  /\ dbMessages' = out.db.messages
            /\ dbSessions' = out.db.sessions
            /\ frameOut' = Observed([NoEffect(out.db, genCount)
                                       EXCEPT !.persisted = <<message>>,
                                              !.threw = out.threw],
                                    db, genCount)
            /\ UNCHANGED <<lifecycleVars, tokenVars, currentNotificationSession,
                           genCount, framePhase, frameDesc, payloadData>>

NextStorage == AddNotificationMessageCalled

SpecStorage == InitStorage /\ [][NextStorage]_vars

\* C40: after any sequence of addNotificationMessage calls, the failing
\* ones with an id already stored included, every session's message_count
\* equals the number of messages stored under it, and a call that failed
\* changed neither the messages nor the counts.
MessageCountEqualsStoredMessages ==
    /\ \A i \in DOMAIN dbSessions :
          dbSessions[i].messageCount
              = Cardinality({m \in dbMessages : m.sessionId = i})
    /\ frameOut.threw =>
          /\ dbMessages = frameOut.dbBefore.messages
          /\ dbSessions = frameOut.dbBefore.sessions

\* a call with an id already stored under the other session has failed,
\* while both sessions hold messages
DuplicateIdRejectedCountsKept ==
    /\ frameOut.threw
    /\ Len(frameOut.persisted) = 1
    /\ \E m \in dbMessages :
          /\ m.id = frameOut.persisted[1].id
          /\ m.sessionId /= frameOut.persisted[1].sessionId
    /\ \A i \in DOMAIN dbSessions : dbSessions[i].messageCount >= 1

====
